---- MODULE Spec2Model ----
(***************************************************************************)
(* Verification model of the consistency core of nitroleads:               *)
(*   - the credit ledger          (lead_extractor/credit_service.py)       *)
(*   - the payment webhooks       (kiwify_service.py, mercadopago_service) *)
(*   - the Viper request queue    (viper_queue_service.py and the          *)
(*                                 process_viper_queue consumer command)   *)
(* The database is PostgreSQL in READ COMMITTED mode: a transaction's      *)
(* writes become visible to the others at commit, an UPDATE or a           *)
(* SELECT ... FOR UPDATE takes the row lock and holds it until commit.     *)
(***************************************************************************)
EXTENDS Integers, Sequences, FiniteSets, TLC

(* ------------------------------ bounds --------------------------------- *)
NumProcs == 2
MaxAmount == 2
MaxLedger == 3
NumConsumers == 2
MaxQueue == 3
MaxTimeout == 2
MaxCredits == 3
MaxQuantity == 5
MaxPlaces == 5
\* poll_interval, the unit of the waiter's clock
PollInterval == 1
\* quantity_requested of the onboarding demo search
OnboardingQuantity == 5

Procs == 1..NumProcs
Amounts == 1..MaxAmount
Consumers == 1..NumConsumers

(* ------------------------------ values --------------------------------- *)
NULL == "NULL"
Orders == {"order-1", "order-2"}
PaymentIds == {"pay-1"}
Cnpjs == {"cnpj-1", "cnpj-2"}
\* Priorities an enqueue may carry: the default 0 and one above it.
Priorities == {0, 1}
\* The threads that run process_search_async, one per Search.
Workers == {"w1", "w2"}

VARIABLES
    credits,     \* UserProfile.credits of the account, as committed
    ledger,      \* the account's committed CreditTransaction rows, in insertion order
    rowLock,     \* the process holding the UserProfile row lock, 0 when free
    pc,          \* position of each request process inside the ledger call it runs
    local,       \* each process's call arguments and in-transaction values
    ret,         \* the (success, new_balance, error) tuple the last ledger call returned
    hret,        \* what the last webhook handler run by the process returned
    queue,       \* the committed ViperRequestQueue rows, in id order
    cpc,         \* position of each queue consumer
    citem,       \* the queue row id the consumer holds, 0 when none
    claims,      \* per row id, how many process_next_request calls returned it
    qret,        \* what the last caller of the enqueue functions got back
    waiter,      \* the caller inside wait_for_partners_processing: position, arguments, locals
    wret,        \* what the last wait_for_partners_processing call returned
    leads,       \* the committed Lead rows, in id order
    accesses,    \* the committed LeadAccess rows, in id order
    attempts,    \* per Lead id, how many debit_credits calls the searches made for it
    searches,    \* the committed Search rows, in id order
    cached,      \* whether the CachedSearch row of the searched niche and location exists
    sw,          \* each process_search_async thread: position and locals
    sz,          \* the last sanitize_lead_data call: arguments and outcome
    resp,        \* the lead data of the last response a view sent to an account
    partnerJobs, \* the Lead ids named by queue rows whose partners are yet to be saved
    mg,          \* the last refresh of a Lead's viper_data by a search: values and outcome
    sret,        \* the last run of the Stripe webhook handler: event, calls made, return
    vresp,       \* the last answer of a status view: receiver, row asked for, body
    gp,          \* the consumer's get_partners_internal call: position, locals, calls made
    vw,          \* one Lead's viper_data column and the writers holding a copy of the row
    total_leads_cached, \* CachedSearch.total_leads_cached of the searched key's row
    cachedSearches, \* the CachedSearch table as create_cached_search is called on it
    ccall,       \* the last create_cached_search call: arguments, what it found, its return
    pg,          \* the search_google_maps_paginated call: arguments, locals, pages asked
    en           \* each enrich_leads request thread: position, the rows it holds, debits

vars == <<credits, ledger, rowLock, pc, local, ret, hret, queue, cpc, citem, claims, qret,
          waiter, wret, leads, accesses, attempts, searches, cached, sw, sz, resp, partnerJobs,
          mg, sret, vresp, gp, vw, total_leads_cached, cachedSearches, ccall,
          pg, en>>
ledgerVars == <<credits, ledger, rowLock, pc, local, ret, hret>>
queueVars == <<queue, cpc, citem, claims, qret>>
waitVars == <<waiter, wret>>
searchVars == <<leads, accesses, attempts, searches, cached, sw>>
\* The variables of the calls checked on their own.
cacheVars == <<cachedSearches, ccall>>
laterVars == <<cacheVars, pg, en>>
moreVars == <<vw, total_leads_cached, laterVars>>
callVars == <<mg, sret, vresp, gp, moreVars>>
\* The variables of the views and calls without the CachedSearch counter.
searchView == <<sz, resp, partnerJobs, mg, sret, vresp, gp, vw, laterVars>>
viewVars == <<sz, resp, partnerJobs, callVars>>
\* The variables outside the ledger and the queue.
restVars == <<waitVars, searchVars, viewVars>>
\* The variables a search thread neither reads nor writes.
searchRest == <<rowLock, pc, local, ret, hret, queueVars, waitVars, viewVars>>

(* ------------------------- models.CreditTransaction -------------------- *)
\* A CreditTransaction row; mp_payment_id and kiwify_sale_id default to NULL.
CreditTransaction(ttype, amount, sale) ==
    [transaction_type |-> ttype, amount |-> amount,
     kiwify_sale_id |-> sale, mp_payment_id |-> NULL]

\* mutant: the usage row is written with the amount unsigned
UsageRow_Unsigned(amount) == CreditTransaction("usage", amount, NULL)

\* credit_service.py:47-52, the row debit_credits creates
UsageRow(amount) == CreditTransaction("usage", 0 - amount, NULL)

\* credit_service.py:95-102, the row add_credits creates
PurchaseRow(amount, sale) == CreditTransaction("purchase", amount, sale)

RECURSIVE SumAmounts(_)
SumAmounts(rows) ==
    IF rows = <<>> THEN 0 ELSE rows[1].amount + SumAmounts(Tail(rows))

NoLocal == [amount |-> 0, sale |-> NULL, via |-> "none", tx |-> 0, count |-> 0]
NoRet == [op |-> "none", ok |-> FALSE, bal |-> 0, err |-> "none"]
\* The payment id and paid flag of the last delivery a process handled, and the
\* handler's return value ("True", "False", or the exception that left it).
NoHret == [id |-> NULL, paid |-> FALSE, result |-> "none"]

\* What an enqueue caller received ("row": the created row alone) and the
\* exception that reached it.
NoQret == [value |-> "none", exc |-> "none"]

\* The waiter outside a call; observed is the status its last query saw.
NoWaiter == [pc |-> "idle", queue_id |-> 0, user |-> NULL, timeout |-> 0,
             elapsed |-> 0, observed |-> "none"]
\* No call has returned yet; value is the returned object, NULL for None.
NoWret == [returned |-> FALSE, value |-> NULL, exc |-> "none"]

\* A process_search_async thread that was not started: its position, the Search
\* it was given, what the external search answers in this run (the ranking of
\* the places as the CNPJ each resolves to, 0 for none, and how many of them the
\* first call shows), the location typed for the Search and the function's
\* locals; from_accessed holds the CNPJs the second loop of
\* get_leads_from_cache returned, failed_debit the loop in which debit_credits
\* first failed, held_total the total_leads_cached of the CachedSearch
\* instance the thread holds; leads_found_in_batch and
\* consecutive_empty_iterations are the counters of the incremental search.
NoWorker ==
    [pc |-> "idle", search |-> 0, ranking |-> <<>>, shown |-> 0, quantity |-> 0,
     location |-> NULL, location_normalized |-> NULL,
     phase |-> "none", todo |-> <<>>, seen |-> {}, accessed |-> {},
     target |-> 0, found |-> 0, paid |-> 0,
     leads_processed |-> 0, credits_used |-> 0, cached_search |-> FALSE,
     cnpj |-> 0, lead |-> 0, created |-> FALSE, returned |-> "no",
     from_accessed |-> {}, failed_debit |-> "none", held_total |-> 0,
     leads_found_in_batch |-> 0, consecutive_empty_iterations |-> 0]

\* No sanitize_lead_data call made yet.
NoSanitizeCall ==
    [called |-> FALSE, lead_data |-> NULL, show_partners |-> FALSE,
     has_enriched_access |-> FALSE, out |-> NULL]

\* No response sent yet: who it went to, the view, the lead, the keys of the
\* lead's viper_data it carries, and enriched_at of the receiver's LeadAccess
\* as set or not when it was sent.
NoResponse == [to |-> NULL, endpoint |-> "none", lead |-> 0, keys |-> {}, enriched |-> FALSE]

\* No Lead refreshed yet.
NoMergeCall == [called |-> FALSE, viper_data |-> NULL, public_data |-> NULL, out |-> NULL]

\* The Stripe handler has not run: the event type and payment_intent of its
\* run, whether it queried CreditTransaction, how its add_credits call ended
\* ("no" when not made) and what it returned.
NoStripeRun ==
    [type |-> NULL, payment_intent |-> NULL, looked_up |-> FALSE,
     add_credits |-> "no", result |-> "none"]

\* No status view has answered: the account answered, the view, the id asked
\* for, the HTTP status, the keys of the JSON body, and the row's status and
\* result or error when the body carries them.
NoViewResponse ==
    [to |-> NULL, endpoint |-> "none", id |-> 0, code |-> 0, fields |-> {},
     status |-> NULL, result |-> NULL]

\* get_partners_internal was not called: its position, the queue item it is
\* called for, the retry argument, whether the token file holds tokens, the
\* local auth_headers, how often run_auth_bot and requests.post were called
\* for the item, the answers of the posts in order, and what was returned.
NoPartnersCall ==
    [pc |-> "idle", item |-> 0, retry |-> TRUE, tokens |-> FALSE, auth_headers |-> FALSE,
     auth_runs |-> 0, http_calls |-> 0, posts |-> <<>>, result |-> NULL]

\* The Lead row with an empty viper_data and no writer at work. Per writer:
\* its position, the viper_data of the instance it loaded, and the keys it set.
Writers == {"consumer", "search", "enrich_leads"}
NoWriters ==
    [db |-> {},
     pc |-> [x \in Writers |-> "idle"],
     mem |-> [x \in Writers |-> {}],
     set |-> [x \in Writers |-> {}]]

\* create_cached_search was not called: its arguments, the id and
\* total_leads_cached of the row of the key before the call (0 when none),
\* and the id of the row returned.
NoCreateCall ==
    [called |-> FALSE, niche |-> NULL, location |-> NULL, total_leads |-> 0,
     found |-> 0, found_total |-> 0, returned |-> 0]

\* search_google_maps_paginated was not called: its position, arguments and
\* locals (all_places as its length), the number of pages asked, how the last
\* page came back ("none" before the first), len(all_places) when that page
\* was asked, and the length of the list returned.
NoPaginatedCall ==
    [pc |-> "idle", max_results |-> 0, max_pages |-> 0, max_results_safe |-> 0,
     all_places |-> 0, page |-> 0, asked |-> 0, last |-> "none", had |-> 0,
     returned |-> 0]

\* No enrich_leads request on the thread: its position, the enriched_at and
\* the viper_data of the rows it fetched, and the debits its requests made.
NoEnrich == [pc |-> "idle", enriched_at |-> FALSE, viper_data |-> {}, debits |-> 0]

Init ==
    /\ credits = 0
    /\ ledger = <<>>
    /\ rowLock = 0
    /\ pc = [p \in Procs |-> "idle"]
    /\ local = [p \in Procs |-> NoLocal]
    /\ ret = [p \in Procs |-> NoRet]
    /\ hret = [p \in Procs |-> NoHret]
    /\ queue = <<>>
    /\ cpc = [c \in Consumers |-> "idle"]
    /\ citem = [c \in Consumers |-> 0]
    /\ claims = <<>>
    /\ qret = NoQret
    /\ waiter = NoWaiter
    /\ wret = NoWret
    /\ leads = <<>>
    /\ accesses = <<>>
    /\ attempts = <<>>
    /\ searches = <<>>
    /\ cached = FALSE
    /\ sw = [w \in Workers |-> NoWorker]
    /\ sz = NoSanitizeCall
    /\ resp = NoResponse
    /\ partnerJobs = {}
    /\ mg = NoMergeCall
    /\ sret = NoStripeRun
    /\ vresp = NoViewResponse
    /\ gp = NoPartnersCall
    /\ vw = NoWriters
    /\ total_leads_cached = 0
    /\ cachedSearches = <<>>
    /\ ccall = NoCreateCall
    /\ pg = NoPaginatedCall
    /\ en = [p \in Procs |-> NoEnrich]

\* Calls in flight each append at most one row: keeps the ledger within MaxLedger.
InFlight == {p \in Procs : pc[p] # "idle"}
RoomInLedger == Len(ledger) + Cardinality(InFlight) < MaxLedger

(* ---------------------- credit_service.debit_credits ------------------- *)
\* mutant: the decrement without the credits__gte filter
ConditionalUpdate_Unchecked(bal, amount) == [count |-> 1, bal |-> bal - amount]

\* filter(id=..., credits__gte=amount).update(credits=F('credits') - amount)
ConditionalUpdate(bal, amount) ==
    IF bal >= amount THEN [count |-> 1, bal |-> bal - amount]
    ELSE [count |-> 0, bal |-> bal]

\* mutant: the failure tuple carries 0, as the exception paths do
InsufficientResult_Zero(bal) ==
    [op |-> "debit", ok |-> FALSE, bal |-> 0, err |-> "insufficient"]

\* return False, user_profile.credits, "Créditos insuficientes..."
InsufficientResult(bal) ==
    [op |-> "debit", ok |-> FALSE, bal |-> bal, err |-> "insufficient"]

\* The caller enters debit_credits(account, amount).
DebitCall(p, amount) ==
    /\ pc[p] = "idle"
    /\ RoomInLedger
    /\ pc' = [pc EXCEPT ![p] = "d_lock"]
    /\ local' = [local EXCEPT ![p] = [NoLocal EXCEPT !.amount = amount, !.via = "direct"]]
    /\ ret' = [ret EXCEPT ![p] = NoRet]
    /\ UNCHANGED <<credits, ledger, rowLock, hret, queueVars, restVars>>

\* transaction.atomic() + select_for_update().get(id=...): waits for the row lock.
DebitSelectForUpdate(p) ==
    /\ pc[p] = "d_lock"
    /\ rowLock = 0
    /\ rowLock' = p
    /\ pc' = [pc EXCEPT ![p] = "d_update"]
    /\ UNCHANGED <<credits, ledger, local, ret, hret, queueVars, restVars>>

\* mutant: the decrement is written outside the transaction (visible at once)
DebitUpdate_Autocommit(p) ==
    /\ pc[p] = "d_update"
    /\ LET u == ConditionalUpdate(credits, local[p].amount) IN
        /\ local' = [local EXCEPT ![p].tx = u.bal, ![p].count = u.count]
        /\ credits' = u.bal
        /\ pc' = [pc EXCEPT ![p] = IF u.count = 0 THEN "d_fail" ELSE "d_insert"]
    /\ UNCHANGED <<ledger, rowLock, ret, hret, queueVars, restVars>>

\* The conditional update and refresh_from_db(), inside the transaction: the
\* new balance is the transaction's own until commit.
DebitUpdate(p) ==
    /\ pc[p] = "d_update"
    /\ LET u == ConditionalUpdate(credits, local[p].amount) IN
        /\ local' = [local EXCEPT ![p].tx = u.bal, ![p].count = u.count]
        /\ pc' = [pc EXCEPT ![p] = IF u.count = 0 THEN "d_fail" ELSE "d_insert"]
    /\ UNCHANGED <<credits, ledger, rowLock, ret, hret, queueVars, restVars>>

\* updated_count == 0: return the refreshed balance; the transaction commits
\* nothing and the row lock is released.
DebitReturnInsufficient(p) ==
    /\ pc[p] = "d_fail"
    /\ ret' = [ret EXCEPT ![p] = InsufficientResult(local[p].tx)]
    /\ rowLock' = 0
    /\ pc' = [pc EXCEPT ![p] = "idle"]
    /\ local' = [local EXCEPT ![p] = NoLocal]
    /\ UNCHANGED <<credits, ledger, hret, queueVars, restVars>>

\* CreditTransaction.objects.create(...) and the commit: decrement and usage
\* row become visible together; returns (True, user_profile.credits, None).
DebitInsertCommit(p) ==
    /\ pc[p] = "d_insert"
    /\ ledger' = Append(ledger, UsageRow(local[p].amount))
    /\ credits' = local[p].tx
    /\ ret' = [ret EXCEPT ![p] = [op |-> "debit", ok |-> TRUE, bal |-> local[p].tx, err |-> "none"]]
    /\ rowLock' = 0
    /\ pc' = [pc EXCEPT ![p] = "idle"]
    /\ local' = [local EXCEPT ![p] = NoLocal]
    /\ UNCHANGED <<hret, queueVars, restVars>>

(* ----------------------- credit_service.add_credits -------------------- *)
\* The caller enters add_credits(user_profile, amount): every caller passes the
\* UserProfile object, so no select_for_update is issued.
AddCall(p, amount) ==
    /\ pc[p] = "idle"
    /\ RoomInLedger
    /\ pc' = [pc EXCEPT ![p] = "a_update"]
    /\ local' = [local EXCEPT ![p] = [NoLocal EXCEPT !.amount = amount, !.via = "direct"]]
    /\ ret' = [ret EXCEPT ![p] = NoRet]
    /\ UNCHANGED <<credits, ledger, rowLock, hret, queueVars, restVars>>

\* credits = F('credits') + amount; save(update_fields=['credits']);
\* refresh_from_db(): the UPDATE waits for the row lock and keeps it.
AddUpdate(p) ==
    /\ pc[p] = "a_update"
    /\ rowLock = 0
    /\ rowLock' = p
    /\ local' = [local EXCEPT ![p].tx = credits + local[p].amount]
    /\ pc' = [pc EXCEPT ![p] = "a_insert"]
    /\ UNCHANGED <<credits, ledger, ret, hret, queueVars, restVars>>

\* CreditTransaction.objects.create(...) and the commit; returns
\* (True, user_profile.credits, None); a webhook caller then returns True.
AddInsertCommit(p) ==
    /\ pc[p] = "a_insert"
    /\ ledger' = Append(ledger, PurchaseRow(local[p].amount, local[p].sale))
    /\ credits' = local[p].tx
    /\ ret' = [ret EXCEPT ![p] = [op |-> "add", ok |-> TRUE, bal |-> local[p].tx, err |-> "none"]]
    /\ hret' = [hret EXCEPT ![p].result =
                    IF local[p].via = "kiwify" THEN "True" ELSE hret[p].result]
    /\ rowLock' = 0
    /\ pc' = [pc EXCEPT ![p] = "idle"]
    /\ local' = [local EXCEPT ![p] = NoLocal]
    /\ UNCHANGED <<queueVars, restVars>>

(* ------------------- kiwify_service.handle_webhook_event --------------- *)
Emails == {"acct@example.com", "nobody@example.com", NULL}
\* The one account of the model, looked up by UserProfile.objects.get(email=...).
AccountEmail == "acct@example.com"

CREDIT_PACKAGES ==
    << [id |-> 1, credits |-> 50],   [id |-> 2, credits |-> 100],
       [id |-> 3, credits |-> 250],  [id |-> 4, credits |-> 500],
       [id |-> 5, credits |-> 1000], [id |-> 6, credits |-> 2500],
       [id |-> 7, credits |-> 5000] >>

KIWIFY_PRODUCT_MAP ==
    << "81d5c7c0-fd44-11f0-bdbc-35f1143ee468", "3fb792d0-fbd0-11f0-a2a0-c373ee20abd6",
       "2a47ec20-fd46-11f0-b377-c79b6942532d", "61d5db60-fbd0-11f0-b6e2-8f08df4b46ed",
       "791453b0-fbd0-11f0-adfe-d9e365e09cfb", "a81f2c70-fbd0-11f0-a545-39764c49322b",
       "a95663e0-fd44-11f0-b8ae-d58151848312" >>

\* Product ids a delivery may carry: two mapped ones, an unmapped one, none.
ProductIds == {KIWIFY_PRODUCT_MAP[1], KIWIFY_PRODUCT_MAP[2], "unknown-uuid", NULL}

\* mutant: the id of the mapped package is taken for its credits
ProductIdToCredits_PackageId(product_id) ==
    IF \E k \in DOMAIN KIWIFY_PRODUCT_MAP : KIWIFY_PRODUCT_MAP[k] = product_id
    THEN CHOOSE k \in DOMAIN KIWIFY_PRODUCT_MAP : KIWIFY_PRODUCT_MAP[k] = product_id
    ELSE 0

\* _product_id_to_credits: the credits of the package mapped to the product id,
\* 0 standing for None.
ProductIdToCredits(product_id) ==
    IF \E k \in DOMAIN KIWIFY_PRODUCT_MAP : KIWIFY_PRODUCT_MAP[k] = product_id
    THEN LET k == CHOOSE k \in DOMAIN KIWIFY_PRODUCT_MAP : KIWIFY_PRODUCT_MAP[k] = product_id
         IN IF \E i \in DOMAIN CREDIT_PACKAGES : CREDIT_PACKAGES[i].id = k
            THEN (CHOOSE pkg \in {CREDIT_PACKAGES[i] : i \in DOMAIN CREDIT_PACKAGES} :
                      pkg.id = k).credits
            ELSE 0
    ELSE 0

\* mutant: the handler credits without looking the order up
KiwifyAlreadyProcessed_NoLookup(order_id) == FALSE

\* CreditTransaction.objects.filter(kiwify_sale_id=order_id).exists()
KiwifyAlreadyProcessed(order_id) ==
    \E i \in DOMAIN ledger : ledger[i].kiwify_sale_id = order_id

\* One delivery of the Kiwify webhook, from the parsed payload down to the call
\* of add_credits (whose steps are AddUpdate and AddInsertCommit). The early
\* returns end the handler in this step.
KiwifyHandleWebhookEvent(p, order_id, order_status, product_id, email) ==
    /\ pc[p] = "idle"
    /\ RoomInLedger
    /\ LET early(result) ==
              /\ hret' = [hret EXCEPT ![p] = [id |-> order_id,
                                              paid |-> (order_status = "paid"),
                                              result |-> result]]
              /\ UNCHANGED <<pc, local>>
       IN
        IF order_id = NULL THEN early("False")
        ELSE IF order_status # "paid" THEN early("True")
        ELSE IF KiwifyAlreadyProcessed(order_id) THEN early("True")
        ELSE IF product_id = NULL \/ email = NULL THEN early("False")
        ELSE IF ProductIdToCredits(product_id) = 0 THEN early("False")
        ELSE IF email # AccountEmail THEN early("False")
        ELSE /\ hret' = [hret EXCEPT ![p] = [id |-> order_id, paid |-> TRUE,
                                             result |-> "none"]]
             /\ pc' = [pc EXCEPT ![p] = "a_update"]
             /\ local' = [local EXCEPT ![p] =
                            [NoLocal EXCEPT !.amount = ProductIdToCredits(product_id),
                                            !.sale = order_id, !.via = "kiwify"]]
    /\ UNCHANGED <<credits, ledger, rowLock, ret, queueVars, restVars>>

(* --------------------- mercadopago_service.handle_webhook -------------- *)
\* CreditTransaction.objects.filter(mp_payment_id=str(payment_id)).exists()
MPAlreadyProcessed(payment_id) ==
    \E i \in DOMAIN ledger : ledger[i].mp_payment_id = payment_id

\* One delivery of the Mercado Pago webhook. api is the outcome of the GET of
\* the payment ("error", or the payment's status), ext_ref the shape of its
\* external_reference. The handler calls add_credits(..., mp_payment_id=...),
\* a keyword add_credits does not take: the call raises TypeError before
\* add_credits runs, and the handler does not catch it.
MPHandleWebhook(p, notif_type, payment_id, sig_ok, api, ext_ref) ==
    /\ pc[p] = "idle"
    /\ LET result ==
              IF notif_type # "payment" THEN "True"
              ELSE IF payment_id = NULL THEN "False"
              ELSE IF ~sig_ok THEN "False"
              ELSE IF MPAlreadyProcessed(payment_id) THEN "True"
              ELSE IF api = "error" THEN "False"
              ELSE IF api # "approved" THEN "True"
              ELSE IF ext_ref # "user:credits" THEN "False"
              ELSE "TypeError"
       IN hret' = [hret EXCEPT ![p] = [id |-> payment_id, paid |-> (api = "approved"),
                                       result |-> result]]
    /\ UNCHANGED <<credits, ledger, rowLock, pc, local, ret, queueVars, restVars>>

(* ------------------- stripe_service.handle_webhook_event --------------- *)
\* def add_credits(user_id, amount, description=None, kiwify_sale_id=None,
\* payment_gateway='kiwify'): the keywords a call may pass.
AddCreditsKeywords == {"description", "kiwify_sale_id", "payment_gateway"}

\* The keywords of the handler's call add_credits(user_profile, credits,
\* description=..., stripe_payment_intent_id=payment_intent_id).
StripeCallKeywords == {"description", "stripe_payment_intent_id"}

\* The user_id values of a session's metadata: the account's id, the id of no
\* UserProfile, or none; and the payment_intent ids.
StripeUserIds == {"acct", "nobody", NULL}
PaymentIntents == {"pi-1", "pi-2"}

\* One delivery of a Stripe event to handle_webhook_event, run to its return.
\* The handler makes no CreditTransaction query. Its add_credits call passes
\* a keyword add_credits does not take, so it raises TypeError before
\* add_credits runs; the handler's `except Exception` returns False.
StripeHandleWebhookEvent(type, user_id, credits_meta, payment_intent) ==
    /\ LET run(called, result) ==
              sret' = [type |-> type, payment_intent |-> payment_intent,
                       looked_up |-> FALSE, add_credits |-> called, result |-> result]
       IN
        IF type # "checkout.session.completed"
        THEN run("no", "True") /\ UNCHANGED <<credits, ledger>>
        ELSE IF user_id = NULL \/ credits_meta = 0
        THEN run("no", "False") /\ UNCHANGED <<credits, ledger>>
        ELSE IF user_id # "acct"
        THEN run("no", "False") /\ UNCHANGED <<credits, ledger>>
        ELSE IF ~(StripeCallKeywords \subseteq AddCreditsKeywords)
        THEN run("TypeError", "False") /\ UNCHANGED <<credits, ledger>>
        ELSE /\ run("done", "True")
             /\ credits' = credits + credits_meta
             /\ ledger' = Append(ledger, PurchaseRow(credits_meta, NULL))
    /\ UNCHANGED <<rowLock, pc, local, ret, hret, queueVars, waitVars, searchVars,
                   sz, resp, partnerJobs, mg, vresp, gp, moreVars>>

NextLedger ==
    \E p \in Procs :
        \/ \E a \in Amounts : DebitCall(p, a)
        \/ DebitSelectForUpdate(p)
        \/ DebitUpdate(p)
        \/ DebitReturnInsufficient(p)
        \/ DebitInsertCommit(p)
        \/ \E a \in Amounts : AddCall(p, a)
        \/ AddUpdate(p)
        \/ AddInsertCommit(p)

SpecLedger == Init /\ [][NextLedger]_vars

\* The gateways deliver webhooks to concurrent request handlers.
NextWebhook ==
    \E p \in Procs :
        \/ \E o \in Orders \cup {NULL}, st \in {"paid", "waiting_payment"},
              prod \in ProductIds, e \in Emails :
                KiwifyHandleWebhookEvent(p, o, st, prod, e)
        \/ \E t \in {"payment", "merchant_order"}, id \in PaymentIds \cup {NULL},
              sig \in BOOLEAN, api \in {"error", "approved", "pending"},
              ref \in {"user:credits", "", "malformed", "unknown-user:credits"} :
                MPHandleWebhook(p, t, id, sig, api, ref)
        \/ AddUpdate(p)
        \/ AddInsertCommit(p)

SpecWebhook == Init /\ [][NextWebhook]_vars

\* The same deliveries handled one after the other: a delivery starts only
\* when no handler is running.
NoHandlerRunning == \A q \in Procs : pc[q] = "idle"

NextWebhookSeq ==
    \E p \in Procs :
        \/ \E o \in Orders \cup {NULL}, st \in {"paid", "waiting_payment"},
              prod \in ProductIds, e \in Emails :
                NoHandlerRunning /\ KiwifyHandleWebhookEvent(p, o, st, prod, e)
        \/ AddUpdate(p)
        \/ AddInsertCommit(p)

SpecWebhookSeq == Init /\ [][NextWebhookSeq]_vars

\* Deliveries of the three gateways for well-formed paid orders of the
\* account, handled one after the other.
NextGateways ==
    \/ \E p \in Procs, o \in Orders :
          /\ NoHandlerRunning
          /\ KiwifyHandleWebhookEvent(p, o, "paid", KIWIFY_PRODUCT_MAP[1], AccountEmail)
    \/ \E p \in Procs : AddUpdate(p)
    \/ \E p \in Procs : AddInsertCommit(p)
    \/ \E p \in Procs, id \in PaymentIds, api \in {"approved", "pending"} :
          NoHandlerRunning /\ MPHandleWebhook(p, "payment", id, TRUE, api, "user:credits")
    \/ \E t \in {"checkout.session.completed", "payment_intent.succeeded"},
          u \in StripeUserIds, c \in {0, CREDIT_PACKAGES[1].credits},
          pi \in PaymentIntents :
            NoHandlerRunning /\ StripeHandleWebhookEvent(t, u, c, pi)

SpecGateways == Init /\ [][NextGateways]_vars

(* ------------------ viper_queue_service: the request queue ------------- *)
\* models.ViperRequestQueue: a new row is pending, its timestamps other than
\* created_at unset. created_at is a logical time; started_at and completed_at
\* record only whether timezone.now() was stamped.
ViperRequestQueue(user, cnpj, priority, created_at) ==
    [user |-> user, request_type |-> "partners", cnpj |-> cnpj,
     status |-> "pending", priority |-> priority, created_at |-> created_at,
     started_at |-> FALSE, completed_at |-> FALSE,
     result_data |-> NULL, error_message |-> NULL]

QueueUsers == {"acct"}

\* auto_now_add: not before the newest row's, possibly the same instant.
CreatedAtChoices ==
    IF queue = <<>> THEN {1}
    ELSE {queue[Len(queue)].created_at, queue[Len(queue)].created_at + 1}

\* enqueue_viper_request: ViperRequestQueue.objects.create(..., status='pending').
\* The function looks for no existing row and returns the created row alone.
EnqueueViperRequest(user, cnpj, priority) ==
    /\ Len(queue) < MaxQueue
    /\ \E t \in CreatedAtChoices :
          queue' = Append(queue, ViperRequestQueue(user, cnpj, priority, t))
    /\ claims' = Append(claims, 0)
    /\ qret' = [value |-> "row", exc |-> "none"]
    /\ UNCHANGED <<ledgerVars, restVars, cpc, citem>>

\* services.get_partners_internal_queued: calls enqueue_viper_request with
\* priority 0 and unpacks its result as (queue_item, is_new); the result is a
\* single model instance, so the unpacking raises TypeError after the row was
\* created.
GetPartnersInternalQueued(user, cnpj) ==
    /\ Len(queue) < MaxQueue
    /\ \E t \in CreatedAtChoices :
          queue' = Append(queue, ViperRequestQueue(user, cnpj, 0, t))
    /\ claims' = Append(claims, 0)
    /\ qret' = [value |-> "none", exc |-> "TypeError"]
    /\ UNCHANGED <<ledgerVars, restVars, cpc, citem>>

\* A row is locked from the SELECT ... FOR UPDATE of a consumer's transaction
\* until that transaction commits.
LockedByOther(i, c) ==
    \E d \in Consumers \ {c} : cpc[d] = "selected" /\ citem[d] = i

\* mutant: the query without select_for_update(skip_locked=True)
PendingCandidates_NoLock(c) ==
    {i \in DOMAIN queue : queue[i].status = "pending"}

\* select_for_update(skip_locked=True).filter(status='pending')
PendingCandidates(c) ==
    {i \in DOMAIN queue : queue[i].status = "pending" /\ ~LockedByOther(i, c)}

\* mutant: the ordering without the priority key
OrderedBefore_CreatedOnly(a, b) == a.created_at < b.created_at

\* order_by('-priority', 'created_at'): a sorts strictly before b
OrderedBefore(a, b) ==
    \/ a.priority > b.priority
    \/ a.priority = b.priority /\ a.created_at < b.created_at

\* .first(): the rows of the candidates no other candidate sorts before (the
\* database returns any one of them when several tie).
FirstOf(cands) ==
    {i \in cands : \A j \in cands : ~OrderedBefore(queue[j], queue[i])}

\* process_next_request, the query: the consumer opens a transaction and locks
\* the first pending row it can lock; with no such row it returns None and the
\* command sleeps.
ProcessNextSelect(c) ==
    /\ cpc[c] = "idle"
    /\ IF PendingCandidates(c) = {}
       THEN /\ cpc' = [cpc EXCEPT ![c] = "sleeping"]
            /\ UNCHANGED citem
       ELSE /\ \E i \in FirstOf(PendingCandidates(c)) :
                  citem' = [citem EXCEPT ![c] = i]
            /\ cpc' = [cpc EXCEPT ![c] = "selected"]
    /\ UNCHANGED <<ledgerVars, restVars, queue, claims, qret>>

\* process_next_request, the save and the commit: status and started_at of the
\* selected row are written, the lock is released, the row is returned.
ProcessNextCommit(c) ==
    /\ cpc[c] = "selected"
    /\ queue' = [queue EXCEPT ![citem[c]].status = "processing",
                              ![citem[c]].started_at = TRUE]
    /\ claims' = [claims EXCEPT ![citem[c]] = @ + 1]
    /\ cpc' = [cpc EXCEPT ![c] = "working"]
    /\ UNCHANGED <<ledgerVars, restVars, citem, qret>>

\* mutant: the completion is saved without 'result_data' in update_fields
MarkRequestCompleted_NoResult(i, result_data) ==
    [queue EXCEPT ![i].status = "completed", ![i].completed_at = TRUE]

\* mark_request_completed: save(update_fields=['status','result_data','completed_at'])
MarkRequestCompleted(i, result_data) ==
    [queue EXCEPT ![i].status = "completed", ![i].result_data = result_data,
                  ![i].completed_at = TRUE]

\* mutant: a failed request is put back in the queue
MarkRequestFailed_Requeue(i, error_message) ==
    [queue EXCEPT ![i].status = "pending", ![i].error_message = error_message,
                  ![i].completed_at = TRUE]

\* mark_request_failed: save(update_fields=['status','error_message','completed_at'])
MarkRequestFailed(i, error_message) ==
    [queue EXCEPT ![i].status = "failed", ![i].error_message = error_message,
                  ![i].completed_at = TRUE]

\* Command.handle, a claimed item whose external call returned a result.
ConsumerComplete(c) ==
    /\ cpc[c] = "working"
    /\ queue' = MarkRequestCompleted(citem[c], "socios")
    /\ cpc' = [cpc EXCEPT ![c] = "idle"]
    /\ citem' = [citem EXCEPT ![c] = 0]
    /\ UNCHANGED <<ledgerVars, restVars, claims, qret>>

\* Command.handle, a claimed item whose processing raised (no result, no cnpj,
\* an error while saving): the except branch marks it failed.
ConsumerFail(c) ==
    /\ cpc[c] = "working"
    /\ queue' = MarkRequestFailed(citem[c], "error")
    /\ cpc' = [cpc EXCEPT ![c] = "idle"]
    /\ citem' = [citem EXCEPT ![c] = 0]
    /\ UNCHANGED <<ledgerVars, restVars, claims, qret>>

\* Command.handle, no item: time.sleep(interval); continue.
ConsumerSleep(c) ==
    /\ cpc[c] = "sleeping"
    /\ cpc' = [cpc EXCEPT ![c] = "idle"]
    /\ UNCHANGED <<ledgerVars, restVars, queue, citem, claims, qret>>

\* One pass of a consumer through a step of the command's loop.
ConsumerStep(c) ==
    \/ ProcessNextSelect(c)
    \/ ProcessNextCommit(c)
    \/ ConsumerComplete(c)
    \/ ConsumerFail(c)
    \/ ConsumerSleep(c)

\* Requests of every key are enqueued while the consumers run.
NextQueue ==
    \/ \E u \in QueueUsers, k \in Cnpjs, pr \in Priorities : EnqueueViperRequest(u, k, pr)
    \/ \E u \in QueueUsers, k \in Cnpjs : GetPartnersInternalQueued(u, k)
    \/ \E c \in Consumers : ConsumerStep(c)

SpecQueue == Init /\ [][NextQueue]_vars

\* The consumers' side of the queue: the claims on it do not read the key of a
\* request, so the requests enqueued are all for one cnpj.
NextConsumers ==
    \/ \E u \in QueueUsers, pr \in Priorities : EnqueueViperRequest(u, "cnpj-1", pr)
    \/ \E u \in QueueUsers : GetPartnersInternalQueued(u, "cnpj-1")
    \/ \E c \in Consumers : ConsumerStep(c)

SpecConsumers == Init /\ [][NextConsumers]_vars

(* ------------------- services.wait_for_partners_processing ------------- *)
\* The accounts a caller may pass: the owner of the rows and another account.
WaitUsers == {"acct", "other"}
\* The ids a caller may pass, of rows that exist and of rows that do not.
QueueIds == 1..MaxQueue
\* timeout in units of poll_interval, 0 included.
Timeouts == 0..MaxTimeout

\* wait_for_partners_processing: start_time = time.time().
WaitCall(queue_id, user, timeout) ==
    /\ waiter.pc = "idle"
    /\ waiter' = [pc |-> "w_loop", queue_id |-> queue_id, user |-> user,
                  timeout |-> timeout, elapsed |-> 0, observed |-> "none"]
    /\ wret' = NoWret
    /\ UNCHANGED <<ledgerVars, queueVars, searchVars, viewVars>>

\* mutant: the lookup by id alone, without user=user_profile
WaitObserve_AnyUser(queue_id, user, db_ok) ==
    IF ~db_ok THEN "error"
    ELSE IF queue_id \notin DOMAIN queue THEN "missing"
    ELSE queue[queue_id].status

\* ViperRequestQueue.objects.get(id=queue_id, user=user_profile): the status of
\* the row, "missing" on DoesNotExist, "error" on any other exception.
WaitObserve(queue_id, user, db_ok) ==
    IF ~db_ok THEN "error"
    ELSE IF queue_id \notin DOMAIN queue \/ queue[queue_id].user # user THEN "missing"
    ELSE queue[queue_id].status

\* The function returns value: the waiter is back outside the call.
WaitReturn(value, observed) ==
    /\ waiter' = [waiter EXCEPT !.pc = "idle", !.observed = observed]
    /\ wret' = [returned |-> TRUE, value |-> value, exc |-> "none"]

\* One pass of the while loop: the test of the deadline, the query, and either
\* a return or the sleep of poll_interval.
WaitPoll(db_ok) ==
    /\ waiter.pc = "w_loop"
    /\ IF waiter.elapsed >= waiter.timeout
       THEN WaitReturn(NULL, "timeout")
       ELSE LET seen == WaitObserve(waiter.queue_id, waiter.user, db_ok) IN
            CASE seen = "completed" ->
                    WaitReturn(queue[waiter.queue_id].result_data, seen)
              [] seen \in {"failed", "missing", "error"} ->
                    WaitReturn(NULL, seen)
              [] OTHER ->
                    /\ waiter' = [waiter EXCEPT !.elapsed = @ + PollInterval,
                                                !.observed = seen]
                    /\ UNCHANGED wret
    /\ UNCHANGED <<ledgerVars, queueVars, searchVars, viewVars>>

\* A caller waits on the queue while one consumer works through it.
NextWait ==
    \/ \E u \in QueueUsers : EnqueueViperRequest(u, "cnpj-1", 0)
    \/ ConsumerStep(1)
    \/ \E id \in QueueIds, u \in WaitUsers, t \in Timeouts : WaitCall(id, u, t)
    \/ \E db_ok \in BOOLEAN : WaitPoll(db_ok)

SpecWait == Init /\ [][NextWait]_vars

(* --------------------- services.process_search_async ------------------- *)
\* The account whose balance the model carries; the searches are its searches.
Account == "acct"
\* The keys of the public company data enrich_company_viper answers with.
PublicData == {"razao_social"}

\* models.Lead: the columns the search reads and writes; cached_search tells
\* whether the row is linked to the CachedSearch of the searched key.
Lead(cnpj, viper_data, cached_search) ==
    [cnpj |-> cnpj, viper_data |-> viper_data, cached_search |-> cached_search]

\* models.LeadAccess; enriched_at is NULL (FALSE) on creation.
LeadAccess(user, lead, search, credits_paid) ==
    [user |-> user, lead |-> lead, search |-> search,
     credits_paid |-> credits_paid, enriched_at |-> FALSE]

\* mutant: the views leave status to the model's default, 'completed'
Search_DefaultStatus(user, quantity) ==
    [user |-> user, quantity_requested |-> quantity, status |-> "completed",
     results_count |-> 0, credits_used |-> 0]

\* models.Search as the views create it: status='processing', counters 0.
Search(user, quantity) ==
    [user |-> user, quantity_requested |-> quantity, status |-> "processing",
     results_count |-> 0, credits_used |-> 0]

Max(S) == CHOOSE m \in S : \A x \in S : x <= m
Min2(a, b) == IF a < b THEN a ELSE b

\* order_by('-created_at'): the ids of S, newest first.
RECURSIVE DescSeq(_)
DescSeq(S) == IF S = {} THEN <<>> ELSE <<Max(S)>> \o DescSeq(S \ {Max(S)})

\* A queryset slice [:n].
Prefix(seq, n) == SubSeq(seq, 1, Min2(n, Len(seq)))

AccessOf(user, lead) ==
    {i \in DOMAIN accesses : accesses[i].user = user /\ accesses[i].lead = lead}

\* Lead.objects.filter(cnpj=cnpj)
LeadsOfCnpj(cnpj) == {i \in DOMAIN leads : leads[i].cnpj = cnpj}

\* LeadAccess.objects.filter(user=...).values_list('lead__cnpj')
AccessedCnpjs(user) ==
    {leads[accesses[i].lead].cnpj : i \in {j \in DOMAIN accesses : accesses[j].user = user}}

\* Lead rows of the cached search with a CNPJ, narrowed to or away from a set.
LeadsWithCnpjIn(S) ==
    {i \in DOMAIN leads : leads[i].cached_search /\ leads[i].cnpj # 0 /\ leads[i].cnpj \in S}
LeadsWithCnpjNotIn(S) ==
    {i \in DOMAIN leads : leads[i].cached_search /\ leads[i].cnpj # 0 /\ leads[i].cnpj \notin S}

\* values('cnpj').distinct().count() over the leads of the cached search
TotalLeadsCached == Cardinality({leads[i].cnpj : i \in LeadsWithCnpjNotIn({})})

\* LeadAccess.objects.filter(user, lead__cnpj=cnpj, search=search).first() exists
\* and has credits_paid > 0; rows is the table the query runs on.
PaidInSearch(rows, user, cnpj, search) ==
    LET hits == {i \in DOMAIN rows : /\ rows[i].user = user
                                     /\ leads[rows[i].lead].cnpj = cnpj
                                     /\ rows[i].search = search}
    IN IF hits = {} THEN 0
       ELSE IF rows[CHOOSE i \in hits : \A j \in hits : i <= j].credits_paid > 0
            THEN 1 ELSE 0

\* mutant: the table without unique_together (user, lead)
InsertLeadAccess_NoUnique(row) ==
    [created |-> TRUE, rows |-> Append(accesses, row)]

\* The INSERT of get_or_create under unique_together (user, lead): the row is
\* added, or the insert fails with IntegrityError, which get_or_create answers
\* by fetching the row that is there.
InsertLeadAccess(row) ==
    IF AccessOf(row.user, row.lead) # {}
    THEN [created |-> FALSE, rows |-> accesses]
    ELSE [created |-> TRUE, rows |-> Append(accesses, row)]

\* mutant: the credit is debited for every lead returned
DebitDue_Always(created) == TRUE

\* `if created:` before each debit_credits call of the search
DebitDue(created) == created

\* admin add_credits_view: add_credits(user_profile, amount), as one commit.
\* The account is funded once.
GrantCredits(amount) ==
    /\ ledger = <<>>
    /\ credits' = credits + amount
    /\ ledger' = Append(ledger, PurchaseRow(amount, NULL))
    /\ UNCHANGED <<searchRest, searchVars>>

\* The locations a search is asked for: a city with its state, and a bare
\* city.
Locations == {"Cidade - UF", "Cidade"}

\* normalize_location: "City - UF" for an input that names the state, None
\* for one that does not.
normalize_location(location) ==
    IF location = "Cidade - UF" THEN location ELSE NULL

\* The Search row is created and the thread started.
StartSearch(w, quantity, location, ranking, shown) ==
    /\ sw[w].pc = "idle"
    /\ Len(searches) < Cardinality(Workers)
    /\ searches' = Append(searches, Search(Account, quantity))
    /\ sw' = [sw EXCEPT ![w] = [NoWorker EXCEPT !.pc = "begin",
                                                !.search = Len(searches) + 1,
                                                !.location = location,
                                                !.ranking = ranking,
                                                !.shown = shown]]
    /\ UNCHANGED <<ledgerVars, queueVars, waitVars, viewVars, leads, accesses, attempts, cached>>

\* views.dashboard: the quantity asked for is cut to the balance, and no Search
\* is created when nothing is left of it.
Dashboard(w, requested, location, ranking, shown) ==
    /\ Min2(requested, credits) > 0
    /\ StartSearch(w, Min2(requested, credits), location, ranking, shown)

\* views.onboarding_start_demo: quantity_requested=5, whatever the balance.
OnboardingStartDemo(w, location, ranking, shown) ==
    StartSearch(w, OnboardingQuantity, location, ranking, shown)

\* process_search_async: the Search is fetched, saved as processing, its
\* quantity read and its location normalized.
BeginProcessing(w) ==
    /\ sw[w].pc = "begin"
    /\ searches' = [searches EXCEPT ![sw[w].search].status = "processing"]
    /\ sw' = [sw EXCEPT ![w].pc = "existing",
                        ![w].quantity = searches[sw[w].search].quantity_requested,
                        ![w].location_normalized = normalize_location(sw[w].location)]
    /\ UNCHANGED <<ledgerVars, queueVars, waitVars, viewVars, leads, accesses, attempts, cached>>

\* The locals of a helper (get_existing_leads_from_db, get_leads_from_cache)
\* that starts its loop over the lead ids of todo to collect target results.
EnterHelper(rec, phase, todo, target) ==
    [rec EXCEPT !.pc = "h_loop", !.phase = phase, !.todo = todo,
                !.target = target, !.seen = {}, !.found = 0, !.paid = 0,
                !.accessed = AccessedCnpjs(Account)]

\* `if niche_normalized and location_normalized:` and
\* get_existing_leads_from_db up to its loop: without a normalized location
\* the helper is not called, without a CachedSearch it returns ([], None),
\* and the live search follows; with one it lists the leads whose CNPJ the
\* account has no access to, newest first, 3 * quantity at most.
GetExistingLeads(w) ==
    /\ sw[w].pc = "existing"
    /\ sw' = [sw EXCEPT ![w] =
                IF sw[w].location_normalized = NULL \/ ~cached
                THEN [@ EXCEPT !.pc = "live_search"]
                ELSE EnterHelper([@ EXCEPT !.held_total = total_leads_cached], "existing",
                        Prefix(DescSeq(LeadsWithCnpjNotIn(AccessedCnpjs(Account))),
                               3 * @.quantity),
                        @.quantity)]
    /\ UNCHANGED <<ledgerVars, queueVars, waitVars, viewVars, leads, accesses, attempts,
                   searches, cached>>

\* A lead was added to the results of the loop the thread is in. In a helper
\* the result is counted, and counted as paid when a LeadAccess of this search
\* with credits_paid > 0 exists for its CNPJ; in the live loops
\* leads_processed grows and the CNPJ is remembered. In the first live loop
\* a search that holds no CachedSearch then calls create_cached_search, whose
\* get_or_create raises IntegrityError on a location_normalized of None.
ItemDone(rec, rows) ==
    IF rec.phase \in {"existing", "cache"}
    THEN [rec EXCEPT !.pc = "h_loop", !.todo = Tail(@),
                     !.found = @ + 1,
                     !.paid = @ + PaidInSearch(rows, Account, rec.cnpj, rec.search)]
    ELSE [rec EXCEPT !.pc = IF rec.phase = "live" /\ ~rec.cached_search
                               /\ rec.location_normalized = NULL
                            THEN "except" ELSE "l_loop",
                     !.todo = Tail(@),
                     !.leads_processed = @ + 1,
                     !.seen = @ \cup {rec.cnpj},
                     !.cached_search = IF rec.phase = "live"
                                          /\ rec.location_normalized # NULL
                                       THEN TRUE ELSE @,
                     !.held_total = IF rec.phase = "live" /\ ~rec.cached_search
                                       /\ rec.location_normalized # NULL
                                    THEN 0 ELSE @,
                     !.leads_found_in_batch = IF rec.phase = "incremental" THEN 1 ELSE @]

\* create_cached_search after a lead of the first live loop, when the search
\* has no CachedSearch yet.
CachedAfterItem(rec) ==
    IF rec.phase = "live" /\ ~rec.cached_search /\ rec.location_normalized # NULL
    THEN TRUE ELSE cached

\* total_leads_cached after that call: create_cached_search(niche, location,
\* 0) stores 0 in the row it creates and in a row it finds.
TotalAfterItem(rec) ==
    IF rec.phase = "live" /\ ~rec.cached_search /\ rec.location_normalized # NULL
    THEN 0 ELSE total_leads_cached

\* `if lead_obj.cached_search != cached_search:` after a lead of the first
\* live loop: the Lead is linked to the CachedSearch the search holds.
LeadsAfterItem(rec) ==
    IF rec.phase = "live" /\ rec.location_normalized # NULL
    THEN [leads EXCEPT ![rec.lead].cached_search = TRUE]
    ELSE leads

\* accessed_leads.update(cached_search=cached_search_new) after the
\* incremental search: every Lead with a LeadAccess of this search is linked.
LinkAccessedLeads(s) ==
    [l \in DOMAIN leads |->
        IF \E i \in DOMAIN accesses : accesses[i].lead = l /\ accesses[i].search = s
        THEN [leads[l] EXCEPT !.cached_search = TRUE]
        ELSE leads[l]]

\* get_leads_from_cache, its second loop: leads whose CNPJ the account had
\* access to when the helper started are returned without a debit, need at
\* most; a LeadAccess with credits_paid=0 is created for a row that has none.
RECURSIVE AccessedPass(_, _, _, _)
AccessedPass(cands, seen, need, search) ==
    IF cands = <<>> \/ need <= 0 THEN [cnpjs |-> {}, rows |-> <<>>]
    ELSE LET l == Head(cands)
             k == leads[l].cnpj
         IN IF k \in seen THEN AccessedPass(Tail(cands), seen, need, search)
            ELSE LET r == AccessedPass(Tail(cands), seen \cup {k}, need - 1, search)
                 IN [cnpjs |-> r.cnpjs \cup {k},
                     rows |-> (IF AccessOf(Account, l) = {}
                               THEN <<LeadAccess(Account, l, search, 0)>>
                               ELSE <<>>) \o r.rows]

RECURSIVE SumPaid(_, _, _)
SumPaid(rows, cnpjs, search) ==
    IF cnpjs = {} THEN 0
    ELSE LET k == CHOOSE x \in cnpjs : TRUE
         IN PaidInSearch(rows, Account, k, search) + SumPaid(rows, cnpjs \ {k}, search)

\* What follows get_existing_leads_from_db in process_search_async: with the
\* quantity reached the search is written up; else the cache is used when it
\* counts enough leads, the live search otherwise. A helper that found leads
\* has recounted the leads of the CachedSearch it holds.
AfterExisting(rec) ==
    LET lp == rec.leads_processed + rec.found
        r == [rec EXCEPT !.leads_processed = lp,
                         !.credits_used = @ + rec.paid,
                         !.cached_search = TRUE,
                         !.held_total = IF rec.found > 0 THEN TotalLeadsCached ELSE @,
                         !.phase = "none", !.todo = <<>>]
    IN IF lp >= rec.quantity THEN [r EXCEPT !.pc = "finish"]
       ELSE IF r.held_total >= rec.quantity - lp
            THEN EnterHelper(r, "cache",
                     Prefix(DescSeq(LeadsWithCnpjNotIn(AccessedCnpjs(Account))),
                            3 * (rec.quantity - lp)),
                     rec.quantity - lp)
            ELSE [r EXCEPT !.pc = "live_search"]

\* The recount of a CachedSearch's leads, made when due: the row's
\* total_leads_cached is saved when the instance's value differs from the count.
SavedTotal(due, held) ==
    IF due /\ held # TotalLeadsCached THEN TotalLeadsCached ELSE total_leads_cached

\* The head of a helper's loop: the next lead of the list is looked up in
\* LeadAccess (the get of get_or_create); at the end of the list, or with the
\* results complete, the helper returns to process_search_async.
HelperLoop(w) ==
    /\ sw[w].pc = "h_loop"
    /\ LET rec == sw[w] IN
       IF rec.todo # <<>> /\ rec.found < rec.target
       THEN /\ sw' = [sw EXCEPT ![w] =
                        IF leads[Head(rec.todo)].cnpj \in rec.seen
                        THEN [rec EXCEPT !.todo = Tail(@)]
                        ELSE [rec EXCEPT !.pc = "sa_get",
                                         !.lead = Head(rec.todo),
                                         !.cnpj = leads[Head(rec.todo)].cnpj,
                                         !.seen = @ \cup {leads[Head(rec.todo)].cnpj}]]
            /\ UNCHANGED <<accesses, total_leads_cached>>
       ELSE IF rec.phase = "existing"
       THEN /\ sw' = [sw EXCEPT ![w] = AfterExisting(rec)]
            /\ total_leads_cached' = SavedTotal(rec.found > 0, rec.held_total)
            /\ UNCHANGED accesses
       ELSE LET need == rec.target - rec.found
                pass == AccessedPass(
                            Prefix(DescSeq(LeadsWithCnpjIn(rec.accessed \ rec.seen)),
                                   2 * need),
                            rec.seen, need, rec.search)
                rows == accesses \o pass.rows
                lp == rec.leads_processed + rec.found + Cardinality(pass.cnpjs)
            IN /\ accesses' = rows
               /\ UNCHANGED total_leads_cached
               /\ sw' = [sw EXCEPT ![w] =
                           [rec EXCEPT !.leads_processed = lp,
                                       !.credits_used = @ + rec.paid
                                            + SumPaid(rows, pass.cnpjs, rec.search),
                                       !.phase = "none", !.todo = <<>>,
                                       !.from_accessed = pass.cnpjs,
                                       !.pc = IF lp < rec.quantity
                                              THEN "live_search" ELSE "finish"]]
    /\ UNCHANGED <<ledgerVars, queueVars, waitVars, searchView, leads, attempts, searches,
                   cached>>

\* An exception inside a helper is caught there: the helper returns no results
\* (and no CachedSearch), whatever it wrote stays, and the live search follows.
\* debit_credits catches its own exceptions, so none starts at the debit.
RaiseInHelper(w) ==
    /\ sw[w].pc \in {"existing", "h_loop", "sa_get", "sa_create"}
    /\ sw[w].pc = "existing" \/ sw[w].phase \in {"existing", "cache"}
    /\ sw' = [sw EXCEPT ![w].pc = "live_search", ![w].phase = "none",
                        ![w].todo = <<>>, ![w].found = 0, ![w].paid = 0]
    /\ UNCHANGED <<ledgerVars, queueVars, waitVars, viewVars, leads, accesses, attempts,
                   searches, cached>>

\* search_google_maps_paginated: the places the first call shows, in order.
LiveSearch(w) ==
    /\ sw[w].pc = "live_search"
    /\ sw' = [sw EXCEPT ![w].pc = "l_loop", ![w].phase = "live",
                        ![w].todo = SubSeq(sw[w].ranking, 1, sw[w].shown),
                        ![w].seen = {}]
    /\ UNCHANGED <<ledgerVars, queueVars, waitVars, viewVars, leads, accesses, attempts,
                   searches, cached>>

\* mutant: a place is processed whether or not its name resolved to a CNPJ
HasCnpj_Always(k) == TRUE

\* `if not cnpj:` after find_cnpj_by_name, negated: the place resolved to a
\* CNPJ (a place that resolves to none carries 0).
HasCnpj(k) == k # 0

\* The head of `for place in filtered_places` and of the incremental loop: a
\* place without CNPJ, or with one this search has processed, is passed over;
\* else the Lead of the CNPJ is looked up and refreshed with the public data.
\* When the first loop ends short of the quantity, the incremental search
\* goes on with the places after those shown, and after it, for a normalized
\* location, the CachedSearch is created if missing and the leads this search
\* accessed are linked to it.
LiveLoop(w) ==
    /\ sw[w].pc = "l_loop"
    /\ LET rec == sw[w] IN
       IF rec.todo # <<>> /\ rec.leads_processed < rec.quantity
       THEN LET k == Head(rec.todo) IN
            /\ UNCHANGED <<cached, total_leads_cached>>
            /\ IF ~HasCnpj(k) \/ k \in rec.seen
               THEN /\ sw' = [sw EXCEPT ![w].todo = Tail(@)]
                    /\ UNCHANGED leads
               ELSE IF LeadsOfCnpj(k) # {}
               THEN /\ sw' = [sw EXCEPT ![w].pc = "sa_get", ![w].cnpj = k,
                                        ![w].lead = Max(LeadsOfCnpj(k))]
                    /\ leads' = [leads EXCEPT ![Max(LeadsOfCnpj(k))].viper_data =
                                                    @ \cup PublicData]
               ELSE /\ sw' = [sw EXCEPT ![w].pc = "l_create", ![w].cnpj = k]
                    /\ UNCHANGED leads
       ELSE IF rec.phase = "live"
            THEN /\ sw' = [sw EXCEPT ![w] =
                             LET r == [rec EXCEPT !.held_total =
                                          IF rec.cached_search THEN TotalLeadsCached ELSE @]
                             IN IF rec.leads_processed >= rec.quantity
                                THEN [r EXCEPT !.pc = "finish", !.todo = <<>>]
                                ELSE [r EXCEPT !.phase = "incremental",
                                               !.todo = SubSeq(rec.ranking, rec.shown + 1,
                                                               Len(rec.ranking))]]
                 /\ total_leads_cached' = SavedTotal(rec.cached_search, rec.held_total)
                 /\ UNCHANGED <<leads, cached>>
            ELSE IF rec.location_normalized # NULL
            THEN /\ sw' = [sw EXCEPT ![w].pc = "finish", ![w].todo = <<>>,
                                     ![w].cached_search = TRUE]
                 /\ cached' = TRUE
                 /\ total_leads_cached' = IF cached THEN total_leads_cached
                                          ELSE rec.leads_processed
                 /\ leads' = LinkAccessedLeads(rec.search)
            ELSE /\ sw' = [sw EXCEPT ![w].pc = "finish", ![w].todo = <<>>]
                 /\ UNCHANGED <<leads, cached, total_leads_cached>>
    /\ UNCHANGED <<ledgerVars, queueVars, waitVars, searchView, accesses, attempts, searches>>

\* Lead.objects.create(cnpj=cnpj, viper_data=...) after the lookup found none;
\* the first loop links the row to the CachedSearch it holds by then, the
\* incremental loop links it to none.
LiveCreateLead(w) ==
    /\ sw[w].pc = "l_create"
    /\ leads' = Append(leads, Lead(sw[w].cnpj, PublicData,
                                   sw[w].phase = "live" /\ sw[w].cached_search))
    /\ attempts' = Append(attempts, 0)
    /\ sw' = [sw EXCEPT ![w].pc = "sa_get", ![w].lead = Len(leads) + 1]
    /\ UNCHANGED <<ledgerVars, queueVars, waitVars, viewVars, accesses, searches, cached>>

\* LeadAccess.objects.get_or_create(user, lead), the get: an existing row is
\* returned with created = False.
AccessGet(w) ==
    /\ sw[w].pc = "sa_get"
    /\ IF AccessOf(Account, sw[w].lead) = {}
       THEN /\ sw' = [sw EXCEPT ![w].pc = "sa_create"]
            /\ UNCHANGED <<leads, cached, total_leads_cached>>
       ELSE /\ sw' = [sw EXCEPT ![w] =
                        IF DebitDue(FALSE)
                        THEN [@ EXCEPT !.pc = "sa_debit", !.created = FALSE]
                        ELSE ItemDone([@ EXCEPT !.created = FALSE], accesses)]
            /\ cached' = IF DebitDue(FALSE) THEN cached ELSE CachedAfterItem(sw[w])
            /\ total_leads_cached' = IF DebitDue(FALSE) THEN total_leads_cached
                                     ELSE TotalAfterItem(sw[w])
            /\ leads' = IF DebitDue(FALSE) THEN leads ELSE LeadsAfterItem(sw[w])
    /\ UNCHANGED <<ledgerVars, queueVars, waitVars, searchView, accesses, attempts, searches>>

\* get_or_create, the create with defaults search=search_obj, credits_paid=1.
AccessCreate(w) ==
    /\ sw[w].pc = "sa_create"
    /\ LET r == InsertLeadAccess(LeadAccess(Account, sw[w].lead, sw[w].search, 1)) IN
       /\ accesses' = r.rows
       /\ sw' = [sw EXCEPT ![w] =
                   IF DebitDue(r.created)
                   THEN [@ EXCEPT !.pc = "sa_debit", !.created = r.created]
                   ELSE ItemDone([@ EXCEPT !.created = r.created], r.rows)]
       /\ cached' = IF DebitDue(r.created) THEN cached ELSE CachedAfterItem(sw[w])
       /\ total_leads_cached' = IF DebitDue(r.created) THEN total_leads_cached
                                ELSE TotalAfterItem(sw[w])
       /\ leads' = IF DebitDue(r.created) THEN leads ELSE LeadsAfterItem(sw[w])
    /\ UNCHANGED <<ledgerVars, queueVars, waitVars, searchView, attempts, searches>>

\* max_consecutive_empty = 3
MaxConsecutiveEmpty == 3

\* `if not success: break` in a live loop. In the first loop the for loop is
\* left. In the incremental search only the for loop over the batch is left:
\* the rest of the batch is dropped, an iteration that found no lead counts
\* as empty (one that found some resets the count), and the while loop goes
\* on with the next batch until MaxConsecutiveEmpty iterations in a row were
\* empty. more tells whether the API has places left after the batch; the
\* next batch then starts at the next place. (The limits of 20 iterations and
\* 50 API requests lie beyond the places modelled.)
AfterFailedDebit(rec, more) ==
    IF rec.phase # "incremental"
    THEN [rec EXCEPT !.pc = "l_loop", !.todo = <<>>]
    ELSE LET empty == IF rec.leads_found_in_batch > 0 THEN 0
                      ELSE rec.consecutive_empty_iterations + 1
         IN [rec EXCEPT !.pc = "l_loop",
                        !.leads_found_in_batch = 0,
                        !.consecutive_empty_iterations = empty,
                        !.todo = IF more /\ empty < MaxConsecutiveEmpty
                                 THEN Tail(@) ELSE <<>>]

\* debit_credits(user_profile, 1) for the lead: in the helpers a failed debit
\* is logged and the lead returned all the same; in the live loops it ends
\* the loop (break) with the lead not counted.
SearchDebit(w) ==
    /\ sw[w].pc = "sa_debit"
    /\ attempts' = [attempts EXCEPT ![sw[w].lead] = @ + 1]
    /\ LET r == ConditionalUpdate(credits, 1) IN
       /\ credits' = r.bal
       /\ ledger' = IF r.count = 1 THEN Append(ledger, UsageRow(1)) ELSE ledger
       /\ IF r.count = 1 \/ sw[w].phase \in {"existing", "cache"}
          THEN /\ sw' = [sw EXCEPT ![w] =
                           ItemDone([@ EXCEPT !.credits_used =
                                        IF sw[w].phase \in {"existing", "cache"}
                                        THEN @ ELSE @ + 1,
                                              !.failed_debit =
                                        IF r.count = 1 \/ @ # "none"
                                        THEN @ ELSE sw[w].phase],
                                    accesses)]
               /\ cached' = CachedAfterItem(sw[w])
               /\ total_leads_cached' = TotalAfterItem(sw[w])
               /\ leads' = LeadsAfterItem(sw[w])
          ELSE /\ \E more \in BOOLEAN :
                    sw' = [sw EXCEPT ![w] =
                             AfterFailedDebit([@ EXCEPT !.failed_debit =
                                                  IF @ # "none" THEN @ ELSE sw[w].phase],
                                              more)]
               /\ UNCHANGED <<leads, cached, total_leads_cached>>
    /\ UNCHANGED <<rowLock, pc, local, ret, hret, queueVars, waitVars, searchView,
                   accesses, searches>>

\* The end of the try block: results_count, credits_used and status are saved.
FinishSearch(w) ==
    /\ sw[w].pc = "finish"
    /\ searches' = [searches EXCEPT ![sw[w].search].results_count = sw[w].leads_processed,
                                    ![sw[w].search].credits_used = sw[w].credits_used,
                                    ![sw[w].search].status = "completed"]
    /\ sw' = [sw EXCEPT ![w].pc = "done", ![w].returned = "normal"]
    /\ UNCHANGED <<ledgerVars, queueVars, waitVars, viewVars, leads, accesses, attempts, cached>>

\* An exception in the body of process_search_async outside the helpers (an
\* external call, a query, a save) sends the thread to `except Exception`.
RaiseInBody(w) ==
    /\ sw[w].pc \in {"begin", "live_search", "l_loop", "l_create",
                     "sa_get", "sa_create", "finish"}
    /\ sw[w].phase \notin {"existing", "cache"}
    /\ sw' = [sw EXCEPT ![w].pc = "except"]
    /\ UNCHANGED <<ledgerVars, queueVars, waitVars, viewVars, leads, accesses, attempts,
                   searches, cached>>

\* except Exception: the Search is fetched again and saved as failed; when
\* that fails too, the bare `except: pass` swallows it.
MarkSearchFailed(s, db_ok) ==
    IF db_ok THEN [searches EXCEPT ![s].status = "failed"] ELSE searches

HandleException(w, db_ok) ==
    /\ sw[w].pc = "except"
    /\ searches' = MarkSearchFailed(sw[w].search, db_ok)
    /\ sw' = [sw EXCEPT ![w].pc = "done",
                        ![w].returned = IF db_ok THEN "handled" ELSE "swallowed"]
    /\ UNCHANGED <<ledgerVars, queueVars, waitVars, viewVars, leads, accesses, attempts, cached>>

\* One step of a process_search_async thread.
SearchStep(w) ==
    \/ BeginProcessing(w)
    \/ GetExistingLeads(w)
    \/ HelperLoop(w)
    \/ RaiseInHelper(w)
    \/ LiveSearch(w)
    \/ LiveLoop(w)
    \/ LiveCreateLead(w)
    \/ AccessGet(w)
    \/ AccessCreate(w)
    \/ SearchDebit(w)
    \/ FinishSearch(w)
    \/ RaiseInBody(w)
    \/ \E db_ok \in BOOLEAN : HandleException(w, db_ok)

\* The ranking of the places of the searched key: place k resolves to CNPJ k.
Ranking == [k \in 1..MaxPlaces |-> k]
\* Short rankings with the number of places the first call shows: one shown
\* whole, one with a place that resolves to no CNPJ, a repeated CNPJ, and a
\* last place that comes with the incremental search only.
ShortRankings == {<<<<1, 2>>, 2>>, <<<<1, 0, 1, 2>>, 3>>}

\* Two searches of the account, one after the other or at once, on a short
\* ranking.
NextSearches ==
    \/ \E a \in 1..MaxCredits : GrantCredits(a)
    \/ \E w \in Workers, q \in {1, 2}, rk \in ShortRankings :
          Dashboard(w, q, "Cidade - UF", rk[1], rk[2])
    \/ \E w \in Workers : OnboardingStartDemo(w, "Cidade - UF", <<1, 2>>, 1)
    \/ \E w \in Workers : SearchStep(w)

SpecSearches == Init /\ [][NextSearches]_vars

\* One search of the account, funded before it starts, on the full ranking.
NextOneSearch ==
    \/ \E a \in 1..MaxCredits : searches = <<>> /\ GrantCredits(a)
    \/ \E q \in 1..MaxQuantity, loc \in Locations, n \in 0..MaxPlaces :
          searches = <<>> /\ Dashboard("w1", q, loc, Ranking, n)
    \/ \E loc \in Locations, n \in 0..MaxPlaces :
          searches = <<>> /\ OnboardingStartDemo("w1", loc, Ranking, n)
    \/ BeginProcessing("w1")
    \/ GetExistingLeads("w1")
    \/ LiveSearch("w1")
    \/ LiveLoop("w1")
    \/ LiveCreateLead("w1")
    \/ AccessGet("w1")
    \/ AccessCreate("w1")
    \/ SearchDebit("w1")
    \/ FinishSearch("w1")
    \/ \E db_ok \in BOOLEAN : HandleException("w1", db_ok)

SpecOneSearch == Init /\ [][NextOneSearch]_vars

\* The demo search of the onboarding on an empty base, for an account funded
\* with less than the demo asks for; the API has one place more than
\* MaxPlaces, each resolving to a CNPJ of its own.
LongRanking == [k \in 1..(MaxPlaces + 1) |-> k]

NextOnboarding ==
    \/ \E a \in 1..MaxCredits : searches = <<>> /\ GrantCredits(a)
    \/ \E n \in 0..(MaxPlaces + 1) :
          searches = <<>> /\ OnboardingStartDemo("w1", "Cidade - UF", LongRanking, n)
    \/ BeginProcessing("w1")
    \/ GetExistingLeads("w1")
    \/ LiveSearch("w1")
    \/ LiveLoop("w1")
    \/ LiveCreateLead("w1")
    \/ AccessGet("w1")
    \/ AccessCreate("w1")
    \/ SearchDebit("w1")
    \/ FinishSearch("w1")

SpecOnboarding == Init /\ [][NextOnboarding]_vars

\* A search of another account for the same key with quantity n, run from the
\* dashboard to its end on an empty base with no other thread in between: the
\* places 1..n resolve to the CNPJs 1..n, for each a Lead is created, the
\* LeadAccess of that account created, and the Lead linked to the CachedSearch
\* the first of them creates. Its Search row and debits are that account's.
OtherAccountSearch(n) ==
    /\ leads = <<>> /\ searches = <<>> /\ ~cached
    /\ leads' = [k \in 1..n |-> Lead(k, PublicData, TRUE)]
    /\ accesses' = [k \in 1..n |-> LeadAccess("other", k, 0, 1)]
    /\ attempts' = [k \in 1..n |-> 0]
    /\ cached' = TRUE
    /\ total_leads_cached' = n
    /\ UNCHANGED <<ledgerVars, queueVars, waitVars, searchView, searches, sw>>

\* One search of the account on a base another account's search has filled.
NextCachePass ==
    \/ \E a \in 1..MaxCredits : searches = <<>> /\ GrantCredits(a)
    \/ \E n \in 1..MaxPlaces : OtherAccountSearch(n)
    \/ \E q \in 1..MaxQuantity, n \in 0..MaxPlaces :
          searches = <<>> /\ Dashboard("w1", q, "Cidade - UF", Ranking, n)
    \/ \E n \in 0..MaxPlaces :
          searches = <<>> /\ OnboardingStartDemo("w1", "Cidade - UF", Ranking, n)
    \/ SearchStep("w1")

SpecCachePass == Init /\ [][NextCachePass]_vars

(* ----------------------- services.sanitize_lead_data ------------------- *)
\* The keys a Lead.viper_data dict can carry.
ViperKeys == PublicData \cup {"telefones", "emails", "socios_qsa", "enderecos"}

\* d.pop(k, None) on a dict, as the dict that is left.
Pop(d, k) == [x \in DOMAIN d \ {k} |-> d[x]]

NoItems == [k \in {} |-> "v"]

\* The values of lead_data['viper_data']: a dict over some of the keys (the
\* empty dict included), None, or a JSON list.
ViperPayloads ==
    {[kind |-> "dict", items |-> f] :
        f \in UNION {[K -> {"v"}] : K \in SUBSET ViperKeys}}
    \cup {[kind |-> "none", items |-> NoItems], [kind |-> "list", items |-> NoItems]}

\* lead_data dicts with and without the key 'viper_data'.
LeadData ==
    {[name |-> "empresa", has_viper_data |-> TRUE, viper_data |-> v] : v \in ViperPayloads}
    \cup {[name |-> "empresa", has_viper_data |-> FALSE,
           viper_data |-> [kind |-> "none", items |-> NoItems]]}

\* Python truth of the value: None and {} are false, a non-empty dict or a
\* list with elements is true.
Truthy(v) == (v.kind = "dict" /\ DOMAIN v.items # {}) \/ v.kind = "list"

\* mutant: the partners stay in the view
PopPartners_Never(viper_data, has_enriched_access) == viper_data

\* `if not has_enriched_access: viper_data.pop('socios_qsa', None)`
PopPartners(viper_data, has_enriched_access) ==
    IF ~has_enriched_access THEN Pop(viper_data, "socios_qsa") ELSE viper_data

\* sanitize_lead_data: the value returned (or the exception raised) and the
\* caller's lead_data object as it is after the call. The function works on a
\* deep copy, so nothing it does reaches lead_data. list.pop(key, None) raises
\* TypeError.
sanitize_lead_data(lead_data, show_partners, has_enriched_access) ==
    LET sanitized == lead_data
        enriched == has_enriched_access \/ show_partners
    IN IF sanitized.has_viper_data /\ Truthy(sanitized.viper_data)
       THEN IF sanitized.viper_data.kind = "dict"
            THEN LET v0 == sanitized.viper_data.items
                     v1 == IF ~enriched THEN Pop(Pop(v0, "telefones"), "emails") ELSE v0
                     v2 == PopPartners(v1, enriched)
                     v3 == Pop(v2, "enderecos")
                 IN [exc |-> "none",
                     value |-> [sanitized EXCEPT !.viper_data.items = v3],
                     input |-> lead_data]
            ELSE [exc |-> "TypeError", value |-> NULL, input |-> lead_data]
       ELSE [exc |-> "none", value |-> sanitized, input |-> lead_data]

\* One call of sanitize_lead_data.
SanitizeCall(lead_data, show_partners, has_enriched_access) ==
    /\ sz' = [called |-> TRUE, lead_data |-> lead_data,
              show_partners |-> show_partners,
              has_enriched_access |-> has_enriched_access,
              out |-> sanitize_lead_data(lead_data, show_partners, has_enriched_access)]
    /\ UNCHANGED <<ledgerVars, queueVars, waitVars, searchVars, resp, partnerJobs, callVars>>

NextSanitize ==
    \E d \in LeadData, sp \in BOOLEAN, hea \in BOOLEAN : SanitizeCall(d, sp, hea)

SpecSanitize == Init /\ [][NextSanitize]_vars

(* ------------- process_search_async: refresh of an existing Lead -------- *)
\* The keys of a viper_data dict the refresh is followed on, and what a value
\* is: empty ('', [], {}, None) or populated.
MergeKeys == {"razao_social", "telefones", "socios_qsa"}
FieldValues == {"empty", "full"}

\* A JSON object over some of the keys, or None: what Lead.viper_data holds
\* and what enrich_company_viper answers (response.json(), None on failure).
JsonObjects ==
    {[kind |-> "dict", items |-> f] :
        f \in UNION {[K -> FieldValues] : K \in SUBSET MergeKeys}}
    \cup {[kind |-> "none", items |-> NoItems]}

\* d.update(other) on dicts, as the dict d is afterwards.
DictUpdate(d, other) ==
    [k \in DOMAIN d \cup DOMAIN other |-> IF k \in DOMAIN other THEN other[k] ELSE d[k]]

\* `if existing_lead:` of both live loops: with a truthy public_data, a falsy
\* viper_data is replaced by {} and lead_obj.viper_data.update(public_data)
\* is saved; else the Lead is left as it is.
RefreshViperData(viper_data, public_data) ==
    IF Truthy(public_data)
    THEN [kind |-> "dict",
          items |-> DictUpdate(IF Truthy(viper_data) THEN viper_data.items ELSE NoItems,
                               public_data.items)]
    ELSE viper_data

\* A search finds the Lead of a CNPJ it looked up and refreshes it.
RefreshExistingLead(viper_data, public_data) ==
    /\ mg' = [called |-> TRUE, viper_data |-> viper_data, public_data |-> public_data,
              out |-> RefreshViperData(viper_data, public_data)]
    /\ UNCHANGED <<ledgerVars, queueVars, waitVars, searchVars, sz, resp, partnerJobs,
                   sret, vresp, gp, moreVars>>

NextRefresh ==
    \E v \in JsonObjects, p \in JsonObjects : RefreshExistingLead(v, p)

SpecRefresh == Init /\ [][NextRefresh]_vars

(* ------------------ views: enrichment and lead data out ---------------- *)
\* The accounts: Account, whose balance the model carries, and a second one.
\* Balances of other accounts are not part of the state; their debits are
\* taken to succeed.
Accounts == {Account, "other"}

\* What the public Viper API answers for the CNPJ: nothing, the company data,
\* or the company data with phones and emails.
PublicPayloads == {{}, PublicData, PublicData \cup {"telefones", "emails"}}

\* The Search row of the account, 0 when it has none.
SearchOf(user) ==
    IF \E i \in DOMAIN searches : searches[i].user = user
    THEN CHOOSE i \in DOMAIN searches : searches[i].user = user
    ELSE 0

\* LeadAccess.objects.filter(user=user_profile, search=search_obj)
AccessInSearch(user) ==
    {i \in DOMAIN accesses : accesses[i].user = user /\ accesses[i].search = SearchOf(user)}

\* debit_credits(user_profile, 1): the balance, the ledger and whether it
\* succeeded.
DebitOne(user) ==
    IF user = Account
    THEN LET r == ConditionalUpdate(credits, 1)
         IN [ok |-> r.count = 1, bal |-> r.bal,
             rows |-> IF r.count = 1 THEN Append(ledger, UsageRow(1)) ELSE ledger]
    ELSE [ok |-> TRUE, bal |-> credits, rows |-> ledger]

\* check_credits(user_profile) >= 1
HasCredit(user) == user = Account => credits >= 1

\* views.has_valid_partners_data
has_valid_partners_data(viper_data) == "socios_qsa" \in viper_data

\* A search of the account for the one company of CNPJ 1, quantity 1, run from
\* the dashboard to its end with no other thread in between: the Lead is
\* fetched and refreshed or created, the LeadAccess created if missing, the
\* credit debited for a new access, and the Search saved as completed.
SearchFor(user, public_data) ==
    /\ SearchOf(user) = 0
    /\ \A w \in Workers : sw[w].pc = "idle"
    /\ HasCredit(user)
    /\ LET s == Len(searches) + 1
           found == LeadsOfCnpj(1)
           l == IF found = {} THEN Len(leads) + 1 ELSE Max(found)
           r == InsertLeadAccess(LeadAccess(user, l, s, 1))
           d == DebitOne(user)
           ok == ~r.created \/ d.ok
       IN /\ leads' = IF found = {}
                      THEN Append(leads, Lead(1, public_data, cached))
                      ELSE [leads EXCEPT ![l].viper_data = @ \cup public_data]
          /\ accesses' = r.rows
          /\ attempts' = LET a == IF found = {} THEN Append(attempts, 0) ELSE attempts
                         IN IF r.created THEN [a EXCEPT ![l] = @ + 1] ELSE a
          /\ credits' = IF r.created THEN d.bal ELSE credits
          /\ ledger' = IF r.created THEN d.rows ELSE ledger
          /\ searches' = Append(searches,
                            [Search(user, 1) EXCEPT
                                !.status = "completed",
                                !.results_count = IF ok THEN 1 ELSE 0,
                                !.credits_used = IF r.created /\ d.ok THEN 1 ELSE 0])
          /\ cached' = TRUE
    /\ UNCHANGED <<searchRest, sw>>

\* views.enrich_leads for the lead of the account's search (lead_ids = [id]).
\* A lead with no phones, emails or partners is looked up in the public API;
\* an answer is merged into the row in memory and the partners requested
\* through get_partners_internal_queued, which adds the queue row for the
\* lead and then raises TypeError: the view answers 500 with nothing saved
\* and nothing debited. Otherwise the credit is debited and, on success,
\* enriched_at set. The response carries counts only.
EnrichLeads(user, public_data) ==
    /\ AccessInSearch(user) # {}
    /\ HasCredit(user)
    /\ LET a == CHOOSE i \in AccessInSearch(user) : TRUE
           l == accesses[a].lead
           viper == leads[l].viper_data
           has_enriched_data == viper \cap {"telefones", "emails", "socios_qsa"} # {}
           d == DebitOne(user)
       IN IF accesses[a].enriched_at
          THEN UNCHANGED <<accesses, credits, ledger, partnerJobs>>
          ELSE IF ~has_enriched_data /\ public_data # {}
          THEN /\ partnerJobs' = partnerJobs \cup {l}
               /\ UNCHANGED <<accesses, credits, ledger>>
          ELSE /\ credits' = d.bal
               /\ ledger' = d.rows
               /\ accesses' = IF d.ok THEN [accesses EXCEPT ![a].enriched_at = TRUE]
                              ELSE accesses
               /\ UNCHANGED partnerJobs
    /\ resp' = [NoResponse EXCEPT !.to = user, !.endpoint = "enrich_leads"]
    /\ UNCHANGED <<rowLock, pc, local, ret, hret, queueVars, waitVars, sz, callVars,
                   leads, attempts, searches, cached, sw>>

\* views.search_partners for the lead of the account's search: the credit is
\* debited first; with partners on the Lead, enriched_at is set and the
\* partners returned; without, get_partners_internal_queued adds the queue row
\* for the lead and raises TypeError, which the view records as an error for
\* the lead.
SearchPartners(user) ==
    /\ AccessInSearch(user) # {}
    /\ HasCredit(user)
    /\ LET a == CHOOSE i \in AccessInSearch(user) : TRUE
           l == accesses[a].lead
           d == DebitOne(user)
           has_partners == has_valid_partners_data(leads[l].viper_data)
       IN /\ credits' = d.bal
          /\ ledger' = d.rows
          /\ accesses' = IF d.ok /\ has_partners
                         THEN [accesses EXCEPT ![a].enriched_at = TRUE] ELSE accesses
          /\ partnerJobs' = IF d.ok /\ ~has_partners THEN partnerJobs \cup {l}
                            ELSE partnerJobs
          /\ resp' = [to |-> user, endpoint |-> "search_partners", lead |-> l,
                      keys |-> IF d.ok /\ has_partners THEN {"socios_qsa"} ELSE {},
                      enriched |-> accesses'[a].enriched_at]
    /\ UNCHANGED <<rowLock, pc, local, ret, hret, queueVars, waitVars, sz, callVars,
                   leads, attempts, searches, cached, sw>>

\* process_viper_queue: the consumer has the partners of a queue row that
\* names a lead and saves them as viper_data['socios_qsa'] of that Lead; a
\* request that fails saves nothing.
ConsumerSavePartners(l, ok) ==
    /\ l \in partnerJobs
    /\ partnerJobs' = partnerJobs \ {l}
    /\ leads' = IF ok THEN [leads EXCEPT ![l].viper_data = @ \cup {"socios_qsa"}]
                ELSE leads
    /\ UNCHANGED <<ledgerVars, queueVars, waitVars, sz, resp, callVars,
                   accesses, attempts, searches, cached, sw>>

\* views.api_partners_status for the lead of the account's search: a lead
\* with partners is answered with its viper_data as stored.
ApiPartnersStatus(user) ==
    /\ AccessInSearch(user) # {}
    /\ LET a == CHOOSE i \in AccessInSearch(user) : TRUE
           l == accesses[a].lead
       IN resp' = [to |-> user, endpoint |-> "api_partners_status", lead |-> l,
                   keys |-> IF has_valid_partners_data(leads[l].viper_data)
                            THEN leads[l].viper_data ELSE {},
                   enriched |-> accesses[a].enriched_at]
    /\ UNCHANGED <<ledgerVars, queueVars, waitVars, searchVars, sz, partnerJobs, callVars>>

\* views.export_leads_csv: per LeadAccess of the account a row with the
\* phones, emails, partners and fiscal address of the Lead's viper_data.
ExportLeadsCsv(user) ==
    /\ AccessInSearch(user) # {}
    /\ LET a == CHOOSE i \in AccessInSearch(user) : TRUE
           l == accesses[a].lead
       IN resp' = [to |-> user, endpoint |-> "export_leads_csv", lead |-> l,
                   keys |-> leads[l].viper_data
                                \cap {"telefones", "emails", "socios_qsa", "enderecos"},
                   enriched |-> accesses[a].enriched_at]
    /\ UNCHANGED <<ledgerVars, queueVars, waitVars, searchVars, sz, partnerJobs, callVars>>

\* Two accounts that search the same company, enrich it and read it back.
NextPrivacy ==
    \/ \E a \in 1..MaxCredits : GrantCredits(a)
    \/ \E u \in Accounts, p \in PublicPayloads : SearchFor(u, p)
    \/ \E u \in Accounts, p \in PublicPayloads : EnrichLeads(u, p)
    \/ \E u \in Accounts : SearchPartners(u)
    \/ \E l \in 1..MaxPlaces, ok \in BOOLEAN : ConsumerSavePartners(l, ok)
    \/ \E u \in Accounts : ApiPartnersStatus(u)
    \/ \E u \in Accounts : ExportLeadsCsv(u)

SpecPrivacy == Init /\ [][NextPrivacy]_vars

(* ------------- views: status of a queue request and of a search -------- *)
\* mutant: the row is fetched by id alone
OwnedRow_AnyUser(rows, id, user) == id \in DOMAIN rows

\* Model.objects.get(id=..., user=user_profile) finds a row.
OwnedRow(rows, id, user) == id \in DOMAIN rows /\ rows[id].user = user

\* except DoesNotExist: JsonResponse({'error': ...}, status=404)
NotFound(user, endpoint, id) ==
    [to |-> user, endpoint |-> endpoint, id |-> id, code |-> 404, fields |-> {"error"},
     status |-> NULL, result |-> NULL]

\* views.viper_queue_status
ViperQueueStatus(user, queue_id) ==
    /\ vresp' =
          IF OwnedRow(queue, queue_id, user)
          THEN LET q == queue[queue_id] IN
               [to |-> user, endpoint |-> "viper_queue_status", id |-> queue_id,
                code |-> 200,
                fields |-> {"status", "queue_id", "created_at"} \cup
                           (CASE q.status = "completed" -> {"result", "completed_at"}
                              [] q.status = "failed" -> {"error", "completed_at"}
                              [] q.status = "processing" -> {"started_at"}
                              [] OTHER -> {}),
                status |-> q.status,
                result |-> CASE q.status = "completed" -> q.result_data
                             [] q.status = "failed" -> q.error_message
                             [] OTHER -> NULL]
          ELSE NotFound(user, "viper_queue_status", queue_id)
    /\ UNCHANGED <<ledgerVars, queueVars, waitVars, searchVars, sz, resp, partnerJobs,
                   mg, sret, gp, moreVars>>

\* views.get_viper_result
GetViperResult(user, queue_id) ==
    /\ vresp' =
          IF OwnedRow(queue, queue_id, user)
          THEN LET q == queue[queue_id] IN
               CASE q.status = "completed" ->
                      [to |-> user, endpoint |-> "get_viper_result", id |-> queue_id,
                       code |-> 200, fields |-> {"status", "result"},
                       status |-> q.status, result |-> q.result_data]
                 [] q.status = "failed" ->
                      [to |-> user, endpoint |-> "get_viper_result", id |-> queue_id,
                       code |-> 400, fields |-> {"status", "error"},
                       status |-> q.status, result |-> q.error_message]
                 [] OTHER ->
                      [to |-> user, endpoint |-> "get_viper_result", id |-> queue_id,
                       code |-> 202, fields |-> {"status", "message"},
                       status |-> q.status, result |-> NULL]
          ELSE NotFound(user, "get_viper_result", queue_id)
    /\ UNCHANGED <<ledgerVars, queueVars, waitVars, searchVars, sz, resp, partnerJobs,
                   mg, sret, gp, moreVars>>

\* views.api_search_status
ApiSearchStatus(user, search_id) ==
    /\ vresp' =
          IF OwnedRow(searches, search_id, user)
          THEN [to |-> user, endpoint |-> "api_search_status", id |-> search_id,
                code |-> 200,
                fields |-> {"status", "results_count", "credits_used",
                            "processing_started_at", "created_at"},
                status |-> searches[search_id].status,
                result |-> NULL]
          ELSE NotFound(user, "api_search_status", search_id)
    /\ UNCHANGED <<ledgerVars, queueVars, waitVars, searchVars, sz, resp, partnerJobs,
                   mg, sret, gp, moreVars>>

\* One queue request of the account and its one search go through their
\* states while the account and another account ask for them, and for rows
\* that do not exist.
NextOwnership ==
    \/ \E u \in QueueUsers : queue = <<>> /\ EnqueueViperRequest(u, "cnpj-1", 0)
    \/ ConsumerStep(1)
    \/ \E id \in QueueIds, u \in WaitUsers : WaitCall(id, u, 1)
    \/ WaitPoll(TRUE)
    \/ searches = <<>> /\ OnboardingStartDemo("w1", "Cidade - UF", <<>>, 0)
    \/ BeginProcessing("w1")
    \/ GetExistingLeads("w1")
    \/ LiveSearch("w1")
    \/ LiveLoop("w1")
    \/ FinishSearch("w1")
    \/ \E u \in WaitUsers, id \in QueueIds : ViperQueueStatus(u, id)
    \/ \E u \in WaitUsers, id \in QueueIds : GetViperResult(u, id)
    \/ \E u \in WaitUsers, id \in 1..2 : ApiSearchStatus(u, id)

SpecOwnership == Init /\ [][NextOwnership]_vars

(* ---------- process_viper_queue: the call of get_partners_internal ------ *)
\* What is left unchanged by a step of get_partners_internal.
OutsidePartnersCall ==
    <<ledgerVars, queueVars, waitVars, searchVars, sz, resp, partnerJobs, mg, sret, vresp,
      moreVars>>

\* Command.handle: result = get_partners_internal(cnpj, retry=True) for the
\* item the consumer claimed. tokens is what the token file holds by then.
GetPartnersInternal(c, tokens) ==
    /\ cpc[c] = "working"
    /\ gp.pc \in {"idle", "returned"} /\ gp.item # citem[c]
    /\ gp' = [NoPartnersCall EXCEPT !.pc = "read", !.item = citem[c], !.tokens = tokens]
    /\ UNCHANGED OutsidePartnersCall

\* auth_headers = get_auth_headers() and the two tests that follow: without
\* headers the bot is run when retry is set, else [] is returned.
GpReadHeaders ==
    /\ gp.pc = "read"
    /\ gp' = [gp EXCEPT !.auth_headers = gp.tokens,
                        !.pc = IF gp.tokens THEN "post"
                               ELSE IF gp.retry THEN "auth_missing" ELSE "returned",
                        !.result = IF ~gp.tokens /\ ~gp.retry THEN "[]" ELSE @]
    /\ UNCHANGED OutsidePartnersCall

\* `if run_auth_bot(): auth_headers = get_auth_headers()` for missing tokens;
\* ok is the bot's exit, wrote whether the file holds tokens after it.
GpRenewMissing(ok, wrote) ==
    /\ gp.pc = "auth_missing"
    /\ LET headers == ok /\ wrote IN
       gp' = [gp EXCEPT !.auth_runs = @ + 1,
                        !.tokens = IF ok THEN wrote ELSE @,
                        !.auth_headers = headers,
                        !.pc = IF headers THEN "post" ELSE "returned",
                        !.result = IF headers THEN @ ELSE "[]"]
    /\ UNCHANGED OutsidePartnersCall

\* requests.post(...): 200 returns the JSON; 401 with retry set goes on to
\* renew the tokens; any other status and any exception return [].
GpPost(status) ==
    /\ gp.pc = "post"
    /\ gp' = [gp EXCEPT !.http_calls = @ + 1,
                        !.posts = Append(@, status),
                        !.pc = IF status = "401" /\ gp.retry THEN "auth_expired"
                               ELSE "returned",
                        !.result = IF status = "200" THEN "socios"
                                   ELSE IF status = "401" /\ gp.retry THEN @ ELSE "[]"]
    /\ UNCHANGED OutsidePartnersCall

\* `if run_auth_bot(): return get_partners_internal(cnpj, retry=False)` after
\* a 401; a failed bot returns [].
GpRenewExpired(ok, wrote) ==
    /\ gp.pc = "auth_expired"
    /\ gp' = [gp EXCEPT !.auth_runs = @ + 1,
                        !.tokens = IF ok THEN wrote ELSE @,
                        !.retry = IF ok THEN FALSE ELSE @,
                        !.pc = IF ok THEN "read" ELSE "returned",
                        !.result = IF ok THEN @ ELSE "[]"]
    /\ UNCHANGED OutsidePartnersCall

\* mutant: the except branch only logs the error
HandleResult_OnlyLogs(c, save_ok) ==
    /\ cpc[c] = "working"
    /\ gp.pc = "returned" /\ gp.item = citem[c]
    /\ queue' = IF gp.result # NULL /\ save_ok
                THEN MarkRequestCompleted(citem[c], "socios")
                ELSE queue
    /\ cpc' = [cpc EXCEPT ![c] = "idle"]
    /\ citem' = [citem EXCEPT ![c] = 0]
    /\ UNCHANGED <<ledgerVars, restVars, claims, qret>>

\* `if result is not None:` on what get_partners_internal returned
ResultIsNotNone(result) == result # NULL

\* isinstance(result, list) -> {'socios': result}: the stored result_data says
\* whether the list of partners is empty.
NormalizedResult(result) == IF result = "[]" THEN "socios: []" ELSE "socios"

\* Command.handle after the call returned: a result that is not None is
\* normalized, written to the lead and the item is marked completed; None
\* raises 'Resultado vazio da API'. An exception on the way (the lead's save
\* fails) is caught and the item is marked failed with str(e).
HandleResult(c, save_ok) ==
    /\ cpc[c] = "working"
    /\ gp.pc = "returned" /\ gp.item = citem[c]
    /\ queue' = IF ResultIsNotNone(gp.result) /\ save_ok
                THEN MarkRequestCompleted(citem[c], NormalizedResult(gp.result))
                ELSE MarkRequestFailed(citem[c], "error")
    /\ cpc' = [cpc EXCEPT ![c] = "idle"]
    /\ citem' = [citem EXCEPT ![c] = 0]
    /\ UNCHANGED <<ledgerVars, restVars, claims, qret>>

\* One consumer works through the queue, calling get_partners_internal for
\* each item it claims and marking the item when the call has returned.
NextPartners ==
    \/ \E u \in QueueUsers : EnqueueViperRequest(u, "cnpj-1", 0)
    \/ ProcessNextSelect(1)
    \/ ProcessNextCommit(1)
    \/ ConsumerSleep(1)
    \/ \E tokens \in BOOLEAN : GetPartnersInternal(1, tokens)
    \/ GpReadHeaders
    \/ \E ok \in BOOLEAN, wrote \in BOOLEAN : GpRenewMissing(ok, wrote)
    \/ \E status \in {"200", "401", "500", "exception"} : GpPost(status)
    \/ \E ok \in BOOLEAN, wrote \in BOOLEAN : GpRenewExpired(ok, wrote)
    \/ \E save_ok \in BOOLEAN : HandleResult(1, save_ok)

SpecPartners == Init /\ [][NextPartners]_vars

\* The steps of the consumer process: the `while True` loop of Command.handle
\* and the call it makes for the item it claimed.
ConsumerRun ==
    \/ ProcessNextSelect(1)
    \/ ProcessNextCommit(1)
    \/ ConsumerSleep(1)
    \/ \E tokens \in BOOLEAN : GetPartnersInternal(1, tokens)
    \/ GpReadHeaders
    \/ \E ok \in BOOLEAN, wrote \in BOOLEAN : GpRenewMissing(ok, wrote)
    \/ \E status \in {"200", "401", "500", "exception"} : GpPost(status)
    \/ \E ok \in BOOLEAN, wrote \in BOOLEAN : GpRenewExpired(ok, wrote)
    \/ \E save_ok \in BOOLEAN : HandleResult(1, save_ok)

\* The consumer keeps running and every external call (run_auth_bot, the post
\* with its 30 s timeout) returns or raises: the consumer's next step is taken.
SpecPartnersLive == SpecPartners /\ WF_vars(ConsumerRun)

(* ------------------- services.create_cached_search -------------------- *)
\* The normalized keys the function is called with.
NicheKeys == {"advogado"}
LocationKeys == {"Cidade - UF", "Outra - UF"}

\* models.CachedSearch
CachedSearch(niche, location, total) ==
    [niche_normalized |-> niche, location_normalized |-> location,
     total_leads_cached |-> total]

\* CachedSearch.objects.filter(niche_normalized=..., location_normalized=...)
CachedSearchOf(rows, niche, location) ==
    {i \in DOMAIN rows : /\ rows[i].niche_normalized = niche
                         /\ rows[i].location_normalized = location}

\* create_cached_search: get_or_create on the key with
\* defaults total_leads_cached=total_leads; `if not created:` the row found
\* gets total_leads_cached = total_leads and is saved. The table and the id
\* of the row returned.
CreateCachedSearch(rows, niche, location, total_leads) ==
    LET hits == CachedSearchOf(rows, niche, location) IN
    IF hits = {}
    THEN [rows |-> Append(rows, CachedSearch(niche, location, total_leads)),
          id |-> Len(rows) + 1]
    ELSE LET i == CHOOSE i \in hits : TRUE
         IN [rows |-> [rows EXCEPT ![i].total_leads_cached = total_leads], id |-> i]

\* A call of create_cached_search on the table.
CreateCachedSearchCall(niche, location, total_leads) ==
    /\ LET hits == CachedSearchOf(cachedSearches, niche, location)
           r == CreateCachedSearch(cachedSearches, niche, location, total_leads)
       IN /\ cachedSearches' = r.rows
          /\ ccall' = [called |-> TRUE, niche |-> niche, location |-> location,
                       total_leads |-> total_leads,
                       found |-> IF hits = {} THEN 0 ELSE CHOOSE i \in hits : TRUE,
                       found_total |-> IF hits = {} THEN 0
                                       ELSE cachedSearches[CHOOSE i \in hits : TRUE]
                                                .total_leads_cached,
                       returned |-> r.id]
    /\ UNCHANGED <<ledgerVars, queueVars, waitVars, searchVars, sz, resp, partnerJobs,
                   mg, sret, vresp, gp, vw, total_leads_cached, pg, en>>

\* The searches call it with 0 (first lead of a live loop) or with the
\* number of leads they processed.
NextCacheEntry ==
    \E n \in NicheKeys, l \in LocationKeys, t \in 0..MaxPlaces :
        CreateCachedSearchCall(n, l, t)

SpecCacheEntry == Init /\ [][NextCacheEntry]_vars

(* ----------------- services.search_google_maps_paginated -------------- *)
\* results_per_page = 10 and the safety limit of min(max_results, 200)
ResultsPerPage == 10
MaxResultsSafe == 200

\* The arguments the function is called with, and the lengths of the list a
\* page can come back with (search_google_hybrid may return more than num).
MaxResultsChoices == {0, 1, 15, 40, 200, 250}
MaxPagesChoices == {0, 1, 3, 20}
PageLengths == {0, 4, 10, 12}

\* What is left unchanged by a step of search_google_maps_paginated.
OutsidePaginated ==
    <<ledgerVars, queueVars, waitVars, searchVars, sz, resp, partnerJobs, mg, sret, vresp, gp,
      vw, total_leads_cached, cacheVars, en>>

\* The call: all_places = [], page = 0, max_results_safe = min(max_results, 200).
SearchGoogleMapsPaginated(max_results, max_pages) ==
    /\ pg.pc \in {"idle", "returned"}
    /\ pg' = [NoPaginatedCall EXCEPT
                 !.pc = "loop", !.max_results = max_results, !.max_pages = max_pages,
                 !.max_results_safe = Min2(max_results, MaxResultsSafe)]
    /\ UNCHANGED OutsidePaginated

\* mutant: a short page does not end the loop
EndOfResults_ShortGoesOn(all_places, places, max_results_safe) ==
    \/ places = 0
    \/ all_places >= max_results_safe

\* The three breaks after a page of len places, all_places being the length
\* after the extend: an empty page, the wanted count reached, a short page.
EndOfResults(all_places, places, max_results_safe) ==
    \/ places = 0
    \/ all_places >= max_results_safe
    \/ places < ResultsPerPage

\* `return all_places[:max_results_safe]`: the length of the slice.
SliceLen(len, stop) ==
    IF stop >= 0 THEN Min2(len, stop)
    ELSE IF len + stop > 0 THEN len + stop ELSE 0

\* `while len(all_places) < max_results_safe and page < max_pages`, false: the
\* slice is returned.
PaginatedReturn ==
    /\ pg.pc = "loop"
    /\ ~(pg.all_places < pg.max_results_safe /\ pg.page < pg.max_pages)
    /\ pg' = [pg EXCEPT !.pc = "returned",
                        !.returned = SliceLen(pg.all_places, pg.max_results_safe)]
    /\ UNCHANGED OutsidePaginated

\* One pass of the loop body whose search_google_hybrid call returned a list
\* of len places: the list is added unless empty, and the loop is left on
\* one of the breaks or goes on to the next page.
PaginatedPage(places) ==
    /\ pg.pc = "loop"
    /\ pg.all_places < pg.max_results_safe /\ pg.page < pg.max_pages
    /\ LET all == pg.all_places + places
           end == EndOfResults(all, places, pg.max_results_safe)
       IN pg' = [pg EXCEPT !.asked = @ + 1, !.had = pg.all_places,
                           !.last = IF places = 0 THEN "empty"
                                    ELSE IF places < ResultsPerPage THEN "short" ELSE "full",
                           !.all_places = all,
                           !.page = IF end THEN @ ELSE @ + 1,
                           !.pc = IF end THEN "returned" ELSE "loop",
                           !.returned = IF end THEN SliceLen(all, pg.max_results_safe) ELSE @]
    /\ UNCHANGED OutsidePaginated

\* One pass of the loop body that raised: `except Exception: ... break`.
PaginatedPageError ==
    /\ pg.pc = "loop"
    /\ pg.all_places < pg.max_results_safe /\ pg.page < pg.max_pages
    /\ pg' = [pg EXCEPT !.asked = @ + 1, !.had = pg.all_places, !.last = "error",
                        !.pc = "returned",
                        !.returned = SliceLen(pg.all_places, pg.max_results_safe)]
    /\ UNCHANGED OutsidePaginated

NextPaginated ==
    \/ \E r \in MaxResultsChoices, p \in MaxPagesChoices : SearchGoogleMapsPaginated(r, p)
    \/ PaginatedReturn
    \/ \E n \in PageLengths : PaginatedPage(n)
    \/ PaginatedPageError

SpecPaginated == Init /\ [][NextPaginated]_vars

(* -------------- Lead.viper_data: writers of the same row --------------- *)
\* What is left unchanged by a writer of the Lead's viper_data.
OutsideWriters ==
    <<ledgerVars, queueVars, waitVars, searchVars, sz, resp, partnerJobs, mg, sret, vresp, gp,
      total_leads_cached, laterVars>>

\* A writer fetches the Lead: queue_item.lead in the consumer,
\* Lead.objects.filter(cnpj=cnpj).first() in the search, the select_related
\* row of the LeadAccess in enrich_leads. The instance holds the viper_data
\* the row had at that moment.
LoadLead(x) ==
    /\ vw.pc[x] = "idle"
    /\ vw' = [vw EXCEPT !.pc[x] = "loaded", !.mem[x] = vw.db]
    /\ UNCHANGED OutsideWriters

\* lead.save(update_fields=['viper_data']): the column is overwritten with the
\* dict of the instance, that is what was loaded plus the keys set since.
SaveViperData(x, keys) ==
    [vw EXCEPT !.pc[x] = "saved", !.set[x] = keys, !.mem[x] = @ \cup keys,
               !.db = vw.mem[x] \cup keys]

\* Command.handle: lead.viper_data['socios_qsa'] = normalized_result; save.
ConsumerStoreQsa ==
    /\ vw.pc["consumer"] = "loaded"
    /\ vw' = SaveViperData("consumer", {"socios_qsa"})
    /\ UNCHANGED OutsideWriters

\* process_search_async: with a truthy public_data,
\* lead_obj.viper_data.update(public_data); save. Without, nothing is saved.
SearchRefreshLead(public_data) ==
    /\ vw.pc["search"] = "loaded"
    /\ vw' = IF public_data # {} THEN SaveViperData("search", public_data)
             ELSE [vw EXCEPT !.pc["search"] = "unsaved"]
    /\ UNCHANGED OutsideWriters

\* enrich_leads on an access not yet enriched: a lead that has phones, emails
\* or partners, or whose lookup answers nothing, is not written. Otherwise
\* phones and emails are set on the instance and, the lead having no partners,
\* get_partners_internal_queued is called, which raises TypeError before the
\* save is reached.
EnrichLeadsMerge(public_data) ==
    /\ vw.pc["enrich_leads"] = "loaded"
    /\ LET viper == vw.mem["enrich_leads"]
           has_enriched_data == viper \cap {"telefones", "emails", "socios_qsa"} # {}
       IN vw' = IF has_enriched_data \/ public_data = {}
                THEN [vw EXCEPT !.pc["enrich_leads"] = "unsaved"]
                ELSE [vw EXCEPT !.pc["enrich_leads"] = "raised",
                                !.mem["enrich_leads"] =
                                    @ \cup (public_data \cap {"telefones", "emails"})]
    /\ UNCHANGED OutsideWriters

\* The consumer, a search and enrich_leads at work on the Lead of one CNPJ.
NextWriters ==
    \/ \E x \in Writers : LoadLead(x)
    \/ ConsumerStoreQsa
    \/ \E p \in PublicPayloads : SearchRefreshLead(p)
    \/ \E p \in PublicPayloads : EnrichLeadsMerge(p)

SpecWriters == Init /\ [][NextWriters]_vars

(* ------------------ views.enrich_leads: requests in parallel ----------- *)
\* What a step of an enrich_leads request leaves unchanged.
OutsideEnrich ==
    <<rowLock, pc, local, ret, hret, queueVars, waitVars, sz, mg, sret, vresp, gp,
      vw, total_leads_cached, cacheVars, pg, leads, attempts, searches, cached, sw>>

\* The LeadAccess of the account's search that lead_ids names.
EnrichedAccess == CHOOSE i \in AccessInSearch(Account) : TRUE

\* The request returns its JsonResponse, which carries counts and no lead data.
EnrichReturn(p) ==
    /\ en' = [en EXCEPT ![p].pc = "idle"]
    /\ resp' = [NoResponse EXCEPT !.to = Account, !.endpoint = "enrich_leads"]

\* enrich_leads(search_id) with lead_ids = [the lead of the search], up to the
\* rows the for loop iterates: the Search is the account's, check_credits
\* covers len(lead_ids), the LeadAccess count matches, and the queryset is
\* evaluated once, with select_related('lead'). No row is locked.
EnrichLeadsCall(p) ==
    /\ en[p].pc = "idle"
    /\ SearchOf(Account) # 0
    /\ credits >= 1
    /\ AccessInSearch(Account) # {}
    /\ en' = [en EXCEPT ![p].pc = "loop",
                        ![p].enriched_at = accesses[EnrichedAccess].enriched_at,
                        ![p].viper_data = leads[accesses[EnrichedAccess].lead].viper_data]
    /\ UNCHANGED <<credits, ledger, accesses, partnerJobs, resp, OutsideEnrich>>

\* The body of the loop up to the debit, on the rows as fetched: an access
\* with enriched_at set is counted and skipped; a lead with no phones, emails
\* or partners is looked up in the public API, and an answer leads to
\* get_partners_internal_queued, which adds the queue row and raises
\* TypeError (the request ends with nothing saved); else the debit follows.
EnrichLeadsLoop(p, public_data) ==
    /\ en[p].pc = "loop"
    /\ LET has_enriched_data ==
               en[p].viper_data \cap {"telefones", "emails", "socios_qsa"} # {}
       IN IF en[p].enriched_at
          THEN EnrichReturn(p) /\ UNCHANGED partnerJobs
          ELSE IF ~has_enriched_data /\ public_data # {}
          THEN /\ EnrichReturn(p)
               /\ partnerJobs' = partnerJobs \cup {accesses[EnrichedAccess].lead}
          ELSE /\ en' = [en EXCEPT ![p].pc = "debit"]
               /\ UNCHANGED <<partnerJobs, resp>>
    /\ UNCHANGED <<credits, ledger, accesses, OutsideEnrich>>

\* debit_credits(user_profile, 1, description="Enriquecimento: ..."): a failed
\* debit is logged and the request returns.
EnrichLeadsDebit(p) ==
    /\ en[p].pc = "debit"
    /\ LET d == DebitOne(Account)
       IN /\ credits' = d.bal
          /\ ledger' = d.rows
          /\ IF d.ok
             THEN /\ en' = [en EXCEPT ![p].pc = "save", ![p].debits = @ + 1]
                  /\ UNCHANGED resp
             ELSE EnrichReturn(p)
    /\ UNCHANGED <<accesses, partnerJobs, OutsideEnrich>>

\* lead_access.enriched_at = timezone.now(); save(update_fields=['enriched_at'])
EnrichLeadsSave(p) ==
    /\ en[p].pc = "save"
    /\ accesses' = [accesses EXCEPT ![EnrichedAccess].enriched_at = TRUE]
    /\ EnrichReturn(p)
    /\ UNCHANGED <<credits, ledger, partnerJobs, OutsideEnrich>>

\* The account is funded, searches the one company, and sends enrich_leads
\* requests for it that the server handles in parallel.
NextEnrich ==
    \/ \E a \in 1..MaxCredits : GrantCredits(a)
    \/ \E p \in PublicPayloads : SearchFor(Account, p)
    \/ \E p \in Procs : EnrichLeadsCall(p)
    \/ \E p \in Procs, d \in PublicPayloads : EnrichLeadsLoop(p, d)
    \/ \E p \in Procs : EnrichLeadsDebit(p)
    \/ \E p \in Procs : EnrichLeadsSave(p)

SpecEnrich == Init /\ [][NextEnrich]_vars

\* The whole system: request handlers, webhook deliveries, queue consumers and
\* the callers waiting on the queue.
Next == NextEnrich \/ NextLedger \/ NextWebhook \/ NextQueue \/ NextWait \/ NextSearches
        \/ NextGateways \/ NextCachePass \/ NextSanitize \/ NextRefresh \/ NextPrivacy
        \/ NextOwnership \/ NextPartners \/ NextWriters \/ NextCacheEntry
        \/ NextPaginated

Spec == Init /\ [][Next]_vars

(* ---------------------- claims on the credit ledger -------------------- *)
\* C1: under every interleaving of debit_credits and add_credits calls on the
\* account, the balance is never negative, neither as committed nor inside the
\* transaction that holds the row lock; so two concurrent debits never both
\* succeed on a balance that covers one of them.
C1_BalanceNeverNegative ==
    /\ credits >= 0
    /\ \A p \in Procs : rowLock = p => local[p].tx >= 0

\* Two debits are in flight on a balance that covers either but not both: one
\* has passed its conditional update, the other waits for the row lock.
C1_Witness ==
    \E p, q \in Procs :
        /\ pc[p] = "d_insert" /\ pc[q] = "d_lock"
        /\ local[p].amount <= credits /\ local[q].amount <= credits
        /\ local[p].amount + local[q].amount > credits

\* C2: starting from balance 0 and an empty ledger, the sum of the amounts of
\* the committed CreditTransaction rows equals the committed balance in every
\* reachable state.
C2_LedgerSumEqualsBalance == SumAmounts(ledger) = credits

\* A ledger holding purchase and usage rows after a debit also failed.
C2_Witness ==
    /\ Len(ledger) = MaxLedger
    /\ \E i \in DOMAIN ledger : ledger[i].transaction_type = "usage"
    /\ \E i \in DOMAIN ledger : ledger[i].transaction_type = "purchase"
    /\ \E p \in Procs : ret[p].err = "insufficient"
    /\ credits > 0

\* C3: a debit_credits call whose amount exceeds the balance takes the failure
\* path; while it is on that path the persisted balance and the ledger do not
\* change, and it returns (False, persisted balance, error).
C3_InsufficientDebit ==
    [][\A p \in Procs :
        /\ (pc[p] = "d_update" /\ pc'[p] # "d_update" /\ local[p].amount > credits)
              => (pc'[p] = "d_fail" /\ credits' = credits /\ ledger' = ledger)
        /\ pc[p] = "d_fail"
              => /\ credits' = credits
                 /\ ledger' = ledger
                 /\ pc'[p] = "idle" =>
                       ret'[p] = [op |-> "debit", ok |-> FALSE,
                                  bal |-> credits, err |-> "insufficient"]
      ]_vars

\* A failed debit has returned a non-zero balance, which is the persisted one.
C3_Witness ==
    \E p \in Procs :
        /\ ret[p].op = "debit" /\ ~ret[p].ok /\ ret[p].err = "insufficient"
        /\ ret[p].bal = credits /\ credits > 0 /\ pc[p] = "idle"

\* C4: a successful debit_credits(account, amount) changes nothing persisted
\* before its commit, and its commit decreases the balance by exactly amount,
\* appends exactly one 'usage' row of amount -amount, and returns
\* (True, new balance, None) with the balance as persisted by that commit.
C4_SuccessfulDebit ==
    [][\A p \in Procs :
        /\ (pc[p] = "d_update" /\ pc'[p] = "d_insert")
              => (credits' = credits /\ ledger' = ledger)
        /\ (pc[p] = "d_insert" /\ pc'[p] = "idle")
              => /\ credits' = credits - local[p].amount
                 /\ ledger' = Append(ledger,
                        CreditTransaction("usage", 0 - local[p].amount, NULL))
                 /\ ret'[p] = [op |-> "debit", ok |-> TRUE,
                               bal |-> credits', err |-> "none"]
        /\ (pc[p] = "d_insert" /\ pc'[p] # "idle")
              => (credits' = credits /\ ledger' = ledger)
      ]_vars

\* A debit of 2 has succeeded: its usage row is the last of the ledger.
C4_Witness ==
    \E p \in Procs :
        /\ ret[p].op = "debit" /\ ret[p].ok /\ ret[p].bal = credits
        /\ Len(ledger) > 0
        /\ ledger[Len(ledger)] = CreditTransaction("usage", 0 - MaxAmount, NULL)

(* ---------------------- claims on the payment webhooks ----------------- *)
RowsOfOrder(o) == {i \in DOMAIN ledger : ledger[i].kiwify_sale_id = o}
RowsOfPayment(id) == {i \in DOMAIN ledger : ledger[i].mp_payment_id = id}

\* C5: for every external payment id (Kiwify order_id, Mercado Pago payment id)
\* at most one CreditTransaction carries it in every reachable state, also
\* when deliveries for the same id are handled concurrently.
C5_AtMostOneEntryPerPaymentId ==
    /\ \A o \in Orders : Cardinality(RowsOfOrder(o)) <= 1
    /\ \A id \in PaymentIds : Cardinality(RowsOfPayment(id)) <= 1

\* C6: when Kiwify paid-order deliveries are handled one after the other, a
\* delivery for an order_id already in the ledger returns True, creates no row
\* and leaves the balance unchanged; every order has at most one row and the
\* balance is the sum of those rows.
C6_KiwifyRedeliveryIsNoOp ==
    /\ [](/\ \A o \in Orders : Cardinality(RowsOfOrder(o)) <= 1
          /\ credits = SumAmounts(ledger))
    /\ [][\A p \in Procs :
            (/\ pc[p] = "idle"
             /\ hret'[p] # hret[p] \/ pc'[p] # pc[p]
             /\ hret'[p].paid
             /\ hret'[p].id \in Orders
             /\ RowsOfOrder(hret'[p].id) # {})
            => /\ hret'[p].result = "True"
               /\ ledger' = ledger
               /\ credits' = credits
               /\ pc' = pc
         ]_vars

\* Two handlers have each returned True for a paid delivery of the same order,
\* and the ledger holds the one row of that order, the balance its credits.
C6_Witness ==
    \E o \in Orders :
        /\ \A p \in Procs : hret[p] = [id |-> o, paid |-> TRUE, result |-> "True"]
        /\ Cardinality(RowsOfOrder(o)) = 1
        /\ Len(ledger) = 1
        /\ credits = ledger[1].amount
        /\ credits > 0

(* ---------------------- claims on the request queue -------------------- *)
InFlightStatus == {"pending", "processing"}

\* C7: at most one pending-or-processing ViperRequestQueue row exists per
\* (account, request_type, cnpj): an enqueue for a key that has such a row
\* creates no new row.
C7_SingleFlightPerKey ==
    \A i, j \in DOMAIN queue :
        (/\ i # j
         /\ queue[i].user = queue[j].user
         /\ queue[i].request_type = queue[j].request_type
         /\ queue[i].cnpj = queue[j].cnpj
         /\ queue[i].status \in InFlightStatus)
        => queue[j].status \notin InFlightStatus

\* C8: with several consumers calling process_next_request concurrently, no
\* row is held by two consumers, no row is returned by more than one call, and
\* a consumer is never made to wait: its query can always run, passing over
\* the rows that are locked.
C8_ClaimsAreExclusive ==
    /\ \A i \in DOMAIN queue : claims[i] <= 1
    /\ \A c, d \in Consumers : (citem[c] # 0 /\ citem[c] = citem[d]) => c = d
    /\ \A c \in Consumers : cpc[c] = "idle" => ENABLED ProcessNextSelect(c)

\* Two consumers are inside process_next_request at once: one holds the lock
\* of the row that sorts first, the other has passed over it and locked the
\* next pending row.
C8_Witness ==
    \E c, d \in Consumers :
        /\ c # d /\ cpc[c] = "selected" /\ cpc[d] = "selected"
        /\ citem[c] # citem[d]
        /\ queue[citem[c]].status = "pending" /\ queue[citem[d]].status = "pending"
        /\ queue[citem[c]].priority > queue[citem[d]].priority

NoRowLocked == \A d \in Consumers : cpc[d] # "selected"
PendingRows == {i \in DOMAIN queue : queue[i].status = "pending"}

\* C9: when a pending row exists and no row is locked, process_next_request
\* selects a pending row that no pending row outranks (none has a higher
\* priority, none of the same priority an earlier created_at); its commit
\* makes that row processing with started_at stamped and changes nothing else.
C9_ClaimsFirstByPriorityThenAge ==
    [][\A c \in Consumers :
        /\ (cpc[c] = "idle" /\ cpc'[c] # "idle" /\ NoRowLocked /\ PendingRows # {})
              => /\ cpc'[c] = "selected"
                 /\ citem'[c] \in PendingRows
                 /\ \A j \in PendingRows :
                       /\ queue[j].priority <= queue[citem'[c]].priority
                       /\ queue[j].priority = queue[citem'[c]].priority
                             => queue[j].created_at >= queue[citem'[c]].created_at
                 /\ queue' = queue
        /\ (cpc[c] = "selected" /\ cpc'[c] # "selected")
              => /\ cpc'[c] = "working"
                 /\ citem'[c] = citem[c]
                 /\ queue' = [queue EXCEPT ![citem[c]].status = "processing",
                                           ![citem[c]].started_at = TRUE]
      ]_vars

\* A consumer has claimed the second row of the queue, of higher priority than
\* the still pending first row, and a third pending row of its priority is newer.
C9_Witness ==
    \E c \in Consumers :
        /\ Len(queue) = 3 /\ cpc[c] = "working" /\ citem[c] = 2
        /\ queue[2].status = "processing" /\ queue[2].started_at
        /\ queue[1].status = "pending" /\ queue[1].priority < queue[2].priority
        /\ queue[3].status = "pending" /\ queue[3].priority = queue[2].priority
        /\ queue[3].created_at > queue[2].created_at

ResultPayloads == {"socios", "socios-vazio"}
ErrorMessages == {"error", "timeout"}

\* C11: for every row and every argument, mark_request_completed(item, result)
\* yields that row with status completed, result_data = result and
\* completed_at set, mark_request_failed(item, msg) yields it with status
\* failed, error_message = msg and completed_at set; the row's other fields and
\* every other row are as before. A consumer that finishes a claimed item
\* changes the queue by exactly one of the two, applied to the item it holds.
C11_TerminalMarkPersistsOutcome ==
    /\ [](\A i \in DOMAIN queue :
            /\ \A r \in ResultPayloads :
                  LET q == MarkRequestCompleted(i, r) IN
                  /\ DOMAIN q = DOMAIN queue
                  /\ q[i] = [queue[i] EXCEPT !.status = "completed",
                                              !.result_data = r,
                                              !.completed_at = TRUE]
                  /\ \A j \in DOMAIN queue \ {i} : q[j] = queue[j]
            /\ \A m \in ErrorMessages :
                  LET q == MarkRequestFailed(i, m) IN
                  /\ DOMAIN q = DOMAIN queue
                  /\ q[i] = [queue[i] EXCEPT !.status = "failed",
                                              !.error_message = m,
                                              !.completed_at = TRUE]
                  /\ \A j \in DOMAIN queue \ {i} : q[j] = queue[j])
    /\ [][\A c \in Consumers :
            (cpc[c] = "working" /\ cpc'[c] # "working")
            => LET i == citem[c] IN
               /\ \A j \in DOMAIN queue \ {i} : queue'[j] = queue[j]
               /\ \/ queue'[i] = [queue[i] EXCEPT !.status = "completed",
                                                   !.result_data = "socios",
                                                   !.completed_at = TRUE]
                  \/ queue'[i] = [queue[i] EXCEPT !.status = "failed",
                                                   !.error_message = "error",
                                                   !.completed_at = TRUE]
         ]_vars

\* One claimed row was marked completed and holds the result, another was
\* marked failed and holds the message, and a third row is still untouched.
C11_Witness ==
    /\ Len(queue) = 3
    /\ \E i, j, k \in DOMAIN queue :
          /\ queue[i].status = "completed" /\ queue[i].result_data = "socios"
          /\ queue[i].completed_at /\ queue[i].error_message = NULL
          /\ queue[j].status = "failed" /\ queue[j].error_message = "error"
          /\ queue[j].completed_at /\ queue[j].result_data = NULL
          /\ queue[k].status = "pending" /\ ~queue[k].completed_at
          /\ queue[k].result_data = NULL /\ queue[k].error_message = NULL

(* ---------------------- claims on the waiting caller ------------------- *)
\* The row the waiter asked for exists and belongs to the account it passed.
WaiterOwnsRow ==
    /\ waiter.queue_id \in DOMAIN queue
    /\ queue[waiter.queue_id].user = waiter.user

\* C12: every pass of wait_for_partners_processing leaves the queue as it is
\* and raises nothing. It returns the row's result_data when its query finds
\* the row of that account completed; it returns None when the row is failed,
\* when no row of that id exists for that account, and when the deadline has
\* passed; it goes on waiting only while the row is pending or processing.
C12_WaitReturnsResultOrNone ==
    /\ [](wret.exc = "none")
    /\ [][(waiter.pc = "w_loop" /\ waiter' # waiter)
            => LET intime == waiter.elapsed < waiter.timeout
                   status == queue[waiter.queue_id].status
               IN
               /\ queue' = queue
               /\ wret'.exc = "none"
               /\ waiter'.pc = "idle" => wret'.returned
               /\ wret'.value # NULL
                     => /\ intime /\ WaiterOwnsRow /\ status = "completed"
                        /\ wret'.value = queue[waiter.queue_id].result_data
                        /\ waiter'.pc = "idle"
               /\ (intime /\ WaiterOwnsRow /\ status = "completed"
                          /\ waiter'.observed # "error")
                     => /\ waiter'.pc = "idle"
                        /\ wret'.value = queue[waiter.queue_id].result_data
               /\ (~intime \/ ~WaiterOwnsRow \/ status = "failed")
                     => (waiter'.pc = "idle" /\ wret'.value = NULL)
               /\ waiter'.pc = "w_loop"
                     => /\ WaiterOwnsRow /\ status \in {"pending", "processing"}
                        /\ waiter'.elapsed > waiter.elapsed
         ]_vars

\* A caller that slept at least once on its own pending row has been handed
\* the result a consumer stored in it.
C12_Witness ==
    /\ waiter.pc = "idle" /\ wret.returned
    /\ waiter.elapsed > 0 /\ waiter.observed = "completed"
    /\ WaiterOwnsRow
    /\ queue[waiter.queue_id].result_data = "socios"
    /\ wret.value = "socios"

\* C13: in every reachable state at most one Lead row exists per CNPJ that is
\* not empty, also when two searches discover the same CNPJ at the same time.
C13_AtMostOneLeadPerCnpj ==
    \A i, j \in DOMAIN leads :
        (leads[i].cnpj # 0 /\ leads[i].cnpj = leads[j].cnpj) => i = j

\* C14: in every reachable state there is at most one LeadAccess row per
\* (account, lead) pair, and a get_or_create whose insert meets a row that a
\* parallel search has created for the pair returns that row (created =
\* False) with the table unchanged and the search going on, not raising.
C14_OneAccessPerAccountAndLead ==
    /\ [](\A i, j \in DOMAIN accesses :
            (accesses[i].user = accesses[j].user /\ accesses[i].lead = accesses[j].lead)
                => i = j)
    /\ [][\A w \in Workers :
            (/\ sw[w].pc = "sa_create"
             /\ AccessOf(Account, sw[w].lead) # {}
             /\ sw'[w].pc \notin {"sa_create", "except", "live_search"})
            => /\ accesses' = accesses
               /\ ~sw'[w].created
               /\ sw'[w].pc \in {"h_loop", "l_loop"}]_vars

\* Two searches of the account were inside get_or_create for the same lead at
\* once, one has inserted the row and the other is about to insert.
C14_Witness ==
    \E w \in Workers :
        /\ sw[w].pc = "sa_create"
        /\ \E i \in AccessOf(Account, sw[w].lead) : accesses[i].search # sw[w].search

\* The LeadAccess rows of a lead that a get_or_create of a search has created.
CreatedRows(l) ==
    {i \in DOMAIN accesses : accesses[i].lead = l /\ accesses[i].credits_paid = 1}

\* The searches that stand right before the debit for lead l.
AtDebit(l) == {w \in Workers : sw[w].pc = "sa_debit" /\ sw[w].lead = l}

C18_ReturnedNeverProcessing ==
    \A w \in Workers :
        sw[w].pc = "done" => searches[sw[w].search].status # "processing"

\* C19: a Search is created in status processing; its status only moves from
\* processing to completed or to failed; once completed or failed, its status,
\* results_count and credits_used never change again.
C19_StatusOnlyMovesToTerminal ==
    [][/\ \A i \in DOMAIN searches' \ DOMAIN searches :
              searches'[i].status = "processing"
       /\ \A i \in DOMAIN searches :
              /\ i \in DOMAIN searches'
              /\ searches'[i].status # searches[i].status
                    => /\ searches[i].status = "processing"
                       /\ searches'[i].status \in {"completed", "failed"}
              /\ searches[i].status \in {"completed", "failed"}
                    => searches'[i] = searches[i]]_vars

\* One search has completed with a lead counted and a credit used, the other
\* has failed, and both threads have returned.
C19_Witness ==
    /\ \A w \in Workers : sw[w].pc = "done"
    /\ \E i, j \in DOMAIN searches :
          /\ searches[i].status = "completed"
          /\ searches[i].results_count > 0 /\ searches[i].credits_used > 0
          /\ searches[j].status = "failed"

\* The usage rows of amount -1 in the ledger.
UsageRows == {i \in DOMAIN ledger : ledger[i] = UsageRow(1)}

\* An account with 3 credits runs a search with quantity 5 for a city with
\* its state, there is no cache entry for the key, and the live search shows
\* 5 places that resolve to 5 distinct CNPJs; the search has finished.
C20_Scenario ==
    /\ Len(ledger) >= 1 /\ ledger[1] = PurchaseRow(3, NULL)
    /\ Len(searches) = 1 /\ searches[1].quantity_requested = 5
    /\ sw["w1"].location = "Cidade - UF"
    /\ sw["w1"].ranking = Ranking /\ sw["w1"].shown = 5
    /\ sw["w1"].pc = "done"

\* C20: in that scenario, when the search finishes there are exactly 3
\* LeadAccess rows for the account, exactly 3 usage rows of amount -1, balance
\* 0, results_count = 3 and status completed.
C20_ThreeAccessesThreeDebits ==
    C20_Scenario =>
        /\ Cardinality({i \in DOMAIN accesses : accesses[i].user = Account}) = 3
        /\ Cardinality(UsageRows) = 3
        /\ credits = 0
        /\ searches[1].results_count = 3
        /\ searches[1].status = "completed"

HiddenKeys == {"telefones", "emails", "socios_qsa", "enderecos"}

C17_SensitiveOnlyWhenEnriched ==
    resp.keys \cap {"telefones", "emails", "socios_qsa"} # {} => resp.enriched

\* The CNPJs the account holds a LeadAccess for through a search other than s.
AccessedThroughOther(s) ==
    {leads[accesses[i].lead].cnpj :
        i \in {j \in DOMAIN accesses : accesses[j].user = Account /\ accesses[j].search # s}}

\* C21: the cache steps of a search never return to the account a lead it has
\* already accessed through one of its most recent searches.
C21_CacheNeverReturnsAccessedLead ==
    \A w \in Workers : sw[w].from_accessed \cap AccessedThroughOther(sw[w].search) = {}

\* C28: a search whose location normalize_location answers None for makes no
\* cache lookup, creates or links no CachedSearch, runs the live search only
\* and ends completed, not failed.
C28_UnnormalizedLocationCompletes ==
    \A w \in Workers :
        (sw[w].pc = "done" /\ sw[w].location # NULL
            /\ normalize_location(sw[w].location) = NULL)
        => /\ searches[sw[w].search].status = "completed"
           /\ ~cached
           /\ \A l \in DOMAIN leads : ~leads[l].cached_search

\* The LeadAccess rows created with the search s as their search.
AccessRowsOf(rows, s) == {i \in DOMAIN rows : rows[i].search = s}

\* C26: in a helper of the cache pass (get_existing_leads_from_db,
\* get_leads_from_cache), once a debit has failed no further LeadAccess is
\* created and no further lead is added to the results of that helper.
C26_CachePassStopsAfterFailedDebit ==
    [][\A w \in Workers :
          (sw[w].failed_debit \in {"existing", "cache"}
              /\ sw[w].phase = sw[w].failed_debit)
          => /\ AccessRowsOf(accesses', sw[w].search) = AccessRowsOf(accesses, sw[w].search)
             /\ sw'[w].found <= sw[w].found]_vars

\* C27: in the live path, after the first failed debit the search creates no
\* further Lead or LeadAccess, attempts no further debit and looks up no
\* further place, the incremental loop included; it only saves its results.
C27_LivePathStopsAfterFailedDebit ==
    [][\A w \in Workers :
          sw[w].failed_debit \in {"live", "incremental"}
          => /\ Len(leads') = Len(leads)
             /\ AccessRowsOf(accesses', sw[w].search) = AccessRowsOf(accesses, sw[w].search)
             /\ attempts' = attempts
             /\ sw'[w].pc \notin {"l_create", "sa_get", "sa_create", "sa_debit"}]_vars

\* The thread w stands at a place of a live loop that resolves to no CNPJ.
AtPlaceWithoutCnpj(w) ==
    /\ sw[w].pc = "l_loop" /\ sw[w].todo # <<>>
    /\ sw[w].leads_processed < sw[w].quantity
    /\ Head(sw[w].todo) = 0

C22_RefreshKeepsPopulatedFields ==
    (mg.called /\ mg.viper_data.kind = "dict") =>
        \A k \in DOMAIN mg.viper_data.items :
            /\ mg.out.kind = "dict" /\ k \in DOMAIN mg.out.items
            /\ mg.viper_data.items[k] = "full" => mg.out.items[k] = "full"

\* C23: every gateway webhook handler has looked for a CreditTransaction of
\* the external payment id before it calls add_credits: a Kiwify or Mercado
\* Pago handler that goes on to add_credits found no row of its id, a Stripe
\* handler that called add_credits had made the query; and a Stripe
\* checkout.session.completed event delivered again after a run that credited
\* the account credits nothing.
C23_HandlersCheckBeforeCrediting ==
    /\ [](sret.add_credits # "no" => sret.looked_up)
    /\ [][/\ \A p \in Procs :
               (pc[p] = "idle" /\ pc'[p] = "a_update" /\ local'[p].via = "kiwify")
               => RowsOfOrder(local'[p].sale) = {}
          /\ \A p \in Procs :
               (hret'[p] # hret[p] /\ hret'[p].id \in PaymentIds
                    /\ RowsOfPayment(hret'[p].id) # {})
               => (pc'[p] = pc[p] /\ ledger' = ledger)
          /\ (sret.add_credits = "done" /\ sret' # sret
                    /\ sret'.payment_intent = sret.payment_intent)
               => credits' = credits]_vars

C25_OnlyOwnerReadsStatus ==
    /\ (vresp.endpoint \in {"viper_queue_status", "get_viper_result"}
            /\ ~(vresp.id \in DOMAIN queue /\ queue[vresp.id].user = vresp.to))
        => vresp = NotFound(vresp.to, vresp.endpoint, vresp.id)
    /\ (vresp.endpoint = "api_search_status"
            /\ ~(vresp.id \in DOMAIN searches /\ searches[vresp.id].user = vresp.to))
        => vresp = NotFound(vresp.to, vresp.endpoint, vresp.id)
    /\ (wret.returned /\ ~WaiterOwnsRow) => wret.value = NULL

\* The other account asked for the result of the account's completed request
\* and was answered 404.
C25_Witness ==
    /\ vresp = NotFound("other", "get_viper_result", 1)
    /\ Len(queue) >= 1 /\ queue[1].user = "acct"
    /\ queue[1].status = "completed" /\ queue[1].result_data # NULL

\* C30: while it processes one queue item the consumer runs run_auth_bot at
\* most once and makes the enrichment HTTP call at most twice.
C30_OneRefreshTwoCallsPerItem ==
    gp.auth_runs <= 1 /\ gp.http_calls <= 2

\* The call of get_partners_internal for queue item i has returned a failure
\* after an authentication error: its first post was answered 401 and either
\* the token renewal failed or the one retry failed too.
AuthFailedFor(i) ==
    /\ gp.item = i /\ gp.pc = "returned"
    /\ gp.posts # <<>> /\ gp.posts[1] = "401"
    /\ gp.result = "[]"

\* C31: a queue item whose enrichment call failed with an authentication error
\* that the refresh or the single retry did not repair never ends completed;
\* once it is finished it is failed and carries an error message.
C31_AuthFailureMarksItemFailed ==
    \A i \in DOMAIN queue :
        AuthFailedFor(i) =>
            /\ queue[i].status # "completed"
            /\ queue[i].status # "processing" =>
                   queue[i].status = "failed" /\ queue[i].error_message # NULL

AllWritersFinished == \A x \in Writers : vw.pc[x] \in {"saved", "unsaved", "raised"}

\* C33: once all writers of a Lead's viper_data have finished, the column
\* holds the keys every writer saved.
C33_NoLostViperDataUpdate ==
    AllWritersFinished =>
        \A x \in Writers : vw.pc[x] = "saved" => vw.set[x] \subseteq vw.db

\* A Lead was linked to the CachedSearch by the search of row s: the search
\* holds the entry and a lead with a LeadAccess of the search is linked.
AssociatedLeads(s) ==
    \E i \in DOMAIN accesses :
        accesses[i].search = s /\ leads[accesses[i].lead].cached_search

\* C34: when a search that associated leads with the CachedSearch is completed
\* and no search is running, total_leads_cached is the number of distinct
\* non-empty CNPJs among the Leads linked to the entry.
C34_TotalLeadsCachedIsCount ==
    \A w \in Workers :
        (/\ sw[w].pc = "done" /\ sw[w].returned = "normal"
         /\ sw[w].cached_search /\ cached
         /\ searches[sw[w].search].status = "completed"
         /\ AssociatedLeads(sw[w].search)
         /\ \A v \in Workers : sw[v].pc \in {"idle", "done"})
        => total_leads_cached = TotalLeadsCached

\* C35: create_cached_search on a key that already has a CachedSearch returns
\* that row, leaves one row for the key, and leaves its total_leads_cached as
\* it was.
C35_GetOrCreateLeavesEntry ==
    (ccall.called /\ ccall.found # 0) =>
        /\ ccall.returned = ccall.found
        /\ Cardinality(CachedSearchOf(cachedSearches, ccall.niche, ccall.location)) = 1
        /\ cachedSearches[ccall.found].total_leads_cached = ccall.found_total

\* A page was asked for in this step of search_google_maps_paginated.
PageAsked == pg'.asked = pg.asked + 1

\* C36: search_google_maps_paginated asks for at most max_pages pages, asks
\* for no page once the accumulated places reach the wanted count or a page
\* came back empty, short or with an error, and returns at most
\* min(max_results, 200) places.
C36_PaginationIsBounded ==
    /\ [](pg.asked <= pg.max_pages)
    /\ [](pg.pc = "returned" =>
             /\ pg.returned <= Min2(pg.max_results, MaxResultsSafe)
             /\ pg.returned <= pg.all_places)
    /\ [][PageAsked =>
             /\ pg.all_places < Min2(pg.max_results, MaxResultsSafe)
             /\ pg.last \in {"none", "full"}]_vars

\* A second page took the list past the wanted count: the search ended there
\* and returned the list cut to the limit.
C36_Witness ==
    /\ pg.pc = "returned" /\ pg.asked = 2 /\ pg.last = "full"
    /\ pg.returned = pg.max_results_safe /\ pg.all_places > pg.returned

\* C37: the credits_used saved on a completed Search is the number of usage
\* CreditTransactions made during its run (the run is the account's only one,
\* so these are the usage rows of the ledger).
C37_CreditsUsedIsDebitsMade ==
    \A s \in DOMAIN searches :
        searches[s].status = "completed" =>
            searches[s].credits_used = Cardinality(UsageRows)

\* The LeadAccess rows the search of row s created: get_or_create and create
\* give every new row search=search_obj.
AccessesCreatedBy(s) == {i \in DOMAIN accesses : accesses[i].search = s}

\* C38: a search run makes at most quantity_requested successful debits and
\* at most quantity_requested new LeadAccess rows, and saves a results_count
\* of at most quantity_requested (the run is the account's only one, so its
\* debits are the usage rows of the ledger).
C38_RunStaysWithinQuantity ==
    \A s \in DOMAIN searches :
        /\ Cardinality(UsageRows) <= searches[s].quantity_requested
        /\ Cardinality(AccessesCreatedBy(s)) <= searches[s].quantity_requested
        /\ searches[s].results_count <= searches[s].quantity_requested

(* ------------------------ claims on enrich_leads ----------------------- *)
\* The enrichment debits made by the requests the threads of S served.
RECURSIVE EnrichmentDebits(_)
EnrichmentDebits(S) ==
    IF S = {} THEN 0
    ELSE LET p == CHOOSE x \in S : TRUE
         IN en[p].debits + EnrichmentDebits(S \ {p})

\* A request that found enriched_at set on the access takes a step.
StepOfRequestOnEnriched(p) == en[p].pc # "idle" /\ en[p].enriched_at /\ en'[p] # en[p]

\* C39: under any interleaving of enrich_leads requests of the account for
\* one lead, at most one enrichment debit is made for the pair; enriched_at
\* is set only after such a debit succeeded; and a request on an access whose
\* enriched_at is already set debits nothing and leaves enriched_at as it is.
C39_OneEnrichmentDebitPerAccess ==
    /\ [](EnrichmentDebits(Procs) <= 1)
    /\ [](\A a \in DOMAIN accesses :
             accesses[a].enriched_at => EnrichmentDebits(Procs) >= 1)
    /\ [][\A p \in Procs :
             StepOfRequestOnEnriched(p) =>
                 /\ credits' = credits /\ ledger' = ledger
                 /\ accesses' = accesses]_vars

(* ------------------ claims on the Mercado Pago webhook ----------------- *)
\* The handler of thread p ends a delivery for an approved payment (the
\* deliveries carry a valid signature and an external_reference that names
\* the account, and no CreditTransaction has the payment's id).
MPApprovedHandled(p) ==
    /\ hret'[p] # hret[p]
    /\ hret'[p].id \in PaymentIds
    /\ hret'[p].paid

\* C40: the Mercado Pago handle_webhook, for an approved payment that is not
\* in the ledger and whose external_reference names the account, increases
\* the balance, adds one purchase CreditTransaction that carries the
\* payment id, and returns True.
C40_MPApprovedPaymentIsCredited ==
    [][\A p \in Procs :
          MPApprovedHandled(p) =>
              /\ hret'[p].result = "True"
              /\ credits' > credits
              /\ Len(ledger') = Len(ledger) + 1
              /\ ledger'[Len(ledger')].transaction_type = "purchase"
              /\ ledger'[Len(ledger')].mp_payment_id = hret'[p].id]_vars
====
